---------------------------- MODULE Spec2Model ----------------------------
(***************************************************************************)
(* A model of the counters-and-anymap library: the type-erased map AnyMap, *)
(* the numeric cache NumCache, the frequency Counter and the CounterMap.   *)
(*                                                                         *)
(* Counts are C++ doubles; the model computes them exactly, as reduced     *)
(* fractions <<numerator, denominator>> with a positive denominator.       *)
(* A map is the sequence of its <<key, value>> entries in traversal order. *)
(***************************************************************************)
EXTENDS Integers, Sequences, FiniteSets, TLC

VARIABLES
    cache,      \* NumCache spec: one NumCache<Count_t> object
    counters,   \* Counter spec: the Counter objects, by object id
    cmap,       \* CounterMap spec: one CounterMap object
    maps,       \* AnyMap spec: the AnyMap objects, by object id
    last,       \* history: the most recent call, its arguments and result
    nops        \* history: the number of calls made so far

vars == <<cache, counters, cmap, maps, nops, last>>

-----------------------------------------------------------------------------
(* Bounds of the model *)

\* largest |numerator| of a count the model represents
MaxNum == 2
\* largest denominator of a count the model represents
MaxDen == 2
\* largest number of calls in one run of the Counter specification
MaxOps == 3
\* the largest number of calls in one run of a CounterMap specification
MaxMapOps == 3
\* the largest number of elements in a range handed to insert(i1, i2)
MaxRange == 3

\* the value type V of the counters and the key type K of the maps
Vals == {1, 2}
Keys == {1, 2}

\* sequences of up to n elements of S
RECURSIVE SeqsUpTo(_, _)
SeqsUpTo(S, n) ==
    IF n = 0 THEN {<<>>}
    ELSE SeqsUpTo(S, n - 1) \cup
         {Append(t, e) : t \in {u \in SeqsUpTo(S, n - 1) : Len(u) = n - 1},
                         e \in S}

-----------------------------------------------------------------------------
(* Exact arithmetic on counts (Count_t) *)

Abs(x) == IF x < 0 THEN -x ELSE x

RECURSIVE GCD(_, _)
GCD(a, b) == IF b = 0 THEN a ELSE GCD(b, a % b)

\* the reduced fraction n/d (d # 0)
Frac(n, d) ==
    LET g == GCD(Abs(n), Abs(d))
        s == IF d < 0 THEN -1 ELSE 1
    IN  <<(s * n) \div g, Abs(d) \div g>>

Zero == <<0, 1>>
One  == <<1, 1>>

Add(x, y) == Frac(x[1] * y[2] + y[1] * x[2], x[2] * y[2])
Neg(x)    == <<-x[1], x[2]>>
Sub(x, y) == Add(x, Neg(y))
Mul(x, y) == Frac(x[1] * y[1], x[2] * y[2])
\* x / y and 1.0 / x, for a divisor that is not 0
Div(x, y) == Frac(x[1] * y[2], x[2] * y[1])
Inv(x)    == Div(One, x)
FromInt(n) == <<n, 1>>

\* the counts the model represents
Representable(x) == Abs(x[1]) <= MaxNum /\ x[2] <= MaxDen
Counts == {Frac(n, d) : n \in -MaxNum..MaxNum, d \in 1..MaxDen}

\* the amounts and scalars the calls of the Counter specifications pass
Amounts == {One, FromInt(-1)}
Scalars == {Zero, FromInt(2)}

-----------------------------------------------------------------------------
(* NumCache<NumType> *)

PERSISTENT == "CACHE_POLICY_PERSISTENT"
RELAXED    == "CACHE_POLICY_RELAXED"
Policies   == {PERSISTENT, RELAXED}

\* NumCache(value, cachePolicy, synched)
NumCache(value, cachePolicy, synched) ==
    [value_ |-> value, cachePolicy_ |-> cachePolicy, synched_ |-> synched]

\* NumCache(): relaxed, unsynched, value-initialised
NumCacheDefault == NumCache(Zero, RELAXED, FALSE)

CacheSet(c, value) == [c EXCEPT !.value_ = value, !.synched_ = TRUE]

\* mutant: get() hands out the stored value whatever the flag says
CacheGet_Stale(c) == c.value_

CacheGet(c) == IF c.synched_ THEN c.value_ ELSE Zero

\* mutant: changing the policy also desynchronizes the cache
CacheSetPolicy_Reset(c, cachePolicy) ==
    [c EXCEPT !.cachePolicy_ = cachePolicy, !.synched_ = FALSE]

CacheSetPolicy(c, cachePolicy) == [c EXCEPT !.cachePolicy_ = cachePolicy]

CacheGetPolicy(c) == c.cachePolicy_

IsSynched(c) == c.synched_

CacheReset(c) == [c EXCEPT !.synched_ = FALSE]

\* mutant: the relaxed policy forgets to desynchronize
CacheAdd_NoDesync(c, n) ==
    IF c.cachePolicy_ = PERSISTENT
    THEN [c EXCEPT !.value_ = Add(c.value_, n)]
    ELSE c

CacheAdd(c, n) ==
    IF c.cachePolicy_ = PERSISTENT
    THEN [c EXCEPT !.value_ = Add(c.value_, n)]
    ELSE [c EXCEPT !.synched_ = FALSE]

\* mutant: the subtraction is applied under either policy
CacheSub_Always(c, n) ==
    IF c.cachePolicy_ = PERSISTENT
    THEN [c EXCEPT !.value_ = Sub(c.value_, n)]
    ELSE [c EXCEPT !.value_ = Sub(c.value_, n), !.synched_ = FALSE]

CacheSub(c, n) ==
    IF c.cachePolicy_ = PERSISTENT
    THEN [c EXCEPT !.value_ = Sub(c.value_, n)]
    ELSE [c EXCEPT !.synched_ = FALSE]

CacheMul(c, n) ==
    IF c.cachePolicy_ = PERSISTENT
    THEN [c EXCEPT !.value_ = Mul(c.value_, n)]
    ELSE [c EXCEPT !.synched_ = FALSE]

\* value_ /= n; under the persistent policy n # 0 is the caller's duty
CacheDiv(c, n) ==
    IF c.cachePolicy_ = PERSISTENT
    THEN [c EXCEPT !.value_ = Div(c.value_, n)]
    ELSE [c EXCEPT !.synched_ = FALSE]

-----------------------------------------------------------------------------
(* AnyMap<K, V>: the wrapper forwards every call to the wrapped container *)

\* the backing containers the tests wrap
UNORDERED == "boost::unordered_map"
ORDERED   == "std::map"
MapTypes  == {UNORDERED, ORDERED}

\* MapModel<MapType>: the wrapped container and its entries in traversal order
AnyMap(type, entries) == [type |-> type, entries |-> entries]

\* AnyMap(): an empty default_map_type
AnyMapDefault == AnyMap(UNORDERED, <<>>)

MapSize(m) == Len(m.entries)

MapEmpty(m) == Len(m.entries) = 0

MapKeys(m) == {m.entries[i][1] : i \in DOMAIN m.entries}

\* find(k): the position of k's entry, 0 standing for end()
MapFind(m, k) ==
    IF \E i \in DOMAIN m.entries : m.entries[i][1] = k
    THEN CHOOSE i \in DOMAIN m.entries : m.entries[i][1] = k
    ELSE 0

MapCount(m, k) == IF MapFind(m, k) = 0 THEN 0 ELSE 1

\* the value of the entry an iterator or reference at position i denotes
MapValue(m, i) == m.entries[i][2]

\* a write through a reference or iterator at position i
MapAssign(m, i, v) == [m EXCEPT !.entries[i] = <<m.entries[i][1], v>>]

\* where the wrapped container may place a new entry for k: std::map keeps
\* its keys sorted, a hash map's traversal order is unspecified
InsertPositions(m, k) ==
    IF m.type = ORDERED
    THEN {1 + Cardinality({i \in DOMAIN m.entries : m.entries[i][1] < k})}
    ELSE 1..(Len(m.entries) + 1)

\* mutant: an insert of a key that is present replaces its value
MapInsert_Overwrite(m, k, v, pos) ==
    IF MapFind(m, k) # 0
    THEN [m EXCEPT !.entries[MapFind(m, k)] = <<k, v>>]
    ELSE [m EXCEPT !.entries = SubSeq(m.entries, 1, pos - 1) \o <<(<<k, v>>)>>
                                 \o SubSeq(m.entries, pos, Len(m.entries))]

\* insert(value_type(k, v)) with the new entry placed at pos: never overwrites
MapInsert(m, k, v, pos) ==
    IF MapFind(m, k) # 0
    THEN m
    ELSE [m EXCEPT !.entries = SubSeq(m.entries, 1, pos - 1) \o <<(<<k, v>>)>>
                                 \o SubSeq(m.entries, pos, Len(m.entries))]

\* mutant: at(k) creates the entry it does not find
MapAt_Creates(m, k) ==
    IF MapFind(m, k) = 0
    THEN [map |-> [m EXCEPT !.entries = Append(@, <<k, Zero>>)],
          thrown |-> FALSE, ret |-> Zero]
    ELSE [map |-> m, thrown |-> FALSE, ret |-> MapValue(m, MapFind(m, k))]

\* at(k), const or not: the container it leaves, whether std::out_of_range
\* was thrown and the value referred to when it was not
MapAt(m, k) ==
    IF MapFind(m, k) = 0
    THEN [map |-> m, thrown |-> TRUE, ret |-> <<>>]
    ELSE [map |-> m, thrown |-> FALSE, ret |-> MapValue(m, MapFind(m, k))]

\* mutant: operator[] value-initialises the entry it finds
MapIndex_Reset(m, k, dflt, pos) ==
    IF MapFind(m, k) # 0
    THEN [m EXCEPT !.entries[MapFind(m, k)] = <<k, dflt>>]
    ELSE [m EXCEPT !.entries = SubSeq(m.entries, 1, pos - 1)
                                 \o <<(<<k, dflt>>)>>
                                 \o SubSeq(m.entries, pos, Len(m.entries))]

\* operator[](k): inserts a value-initialised entry when k is absent; the
\* reference returned is the entry at MapFind of the result
MapIndex(m, k, dflt, pos) == MapInsert(m, k, dflt, pos)

\* insert(i1, i2): the elements of the range are inserted one by one from
\* position i on; the result is the set of containers this can leave (one
\* per placement of the new entries)
RECURSIVE MapInsertRange(_, _, _)
MapInsertRange(m, range, i) ==
    IF i > Len(range) THEN {m}
    ELSE UNION {MapInsertRange(MapInsert(m, range[i][1], range[i][2], pos),
                               range, i + 1) :
                pos \in InsertPositions(m, range[i][1])}

\* mutant: the last entry of a container is never erased
MapErase_KeepsLast(m, k) ==
    IF Len(m.entries) = 1 THEN m
    ELSE [m EXCEPT !.entries = SelectSeq(m.entries, LAMBDA e : e[1] # k)]

\* erase(k)
MapErase(m, k) ==
    [m EXCEPT !.entries = SelectSeq(m.entries, LAMBDA e : e[1] # k)]

MapClear(m) == [m EXCEPT !.entries = <<>>]

\* mutant: the loop looks the keys up and never compares the mapped values
RECURSIVE MapEqualsLoop_KeysOnly(_, _, _)
MapEqualsLoop_KeysOnly(a, b, i) ==
    IF i > Len(a.entries) THEN TRUE
    ELSE IF MapFind(b, a.entries[i][1]) = 0
         THEN FALSE
         ELSE MapEqualsLoop_KeysOnly(a, b, i + 1)

\* MapConcept::operator== on maps of counts; same stands for this == &other
RECURSIVE MapEqualsLoop(_, _, _)
MapEqualsLoop(a, b, i) ==
    IF i > Len(a.entries) THEN TRUE
    ELSE LET oi == MapFind(b, a.entries[i][1])
         IN  IF oi = 0 \/ MapValue(b, oi) # a.entries[i][2]
             THEN FALSE
             ELSE MapEqualsLoop(a, b, i + 1)

\* mutant: the sizes are not compared before the loop
MapEquals_NoSize(a, b, same) ==
    IF same THEN TRUE ELSE MapEqualsLoop(a, b, 1)

MapEquals(a, b, same) ==
    IF same THEN TRUE
    ELSE IF MapSize(a) # MapSize(b) THEN FALSE
    ELSE MapEqualsLoop(a, b, 1)

MapNotEquals(a, b, same) == ~MapEquals(a, b, same)

-----------------------------------------------------------------------------
(* AnyMap ownership: every AnyMap object owns its wrapped container through
   the pointer mapConcept_. A store holds the pointer of each object, the
   containers on the heap and the set of objects that are constructed. *)

\* the null pointer of o.mapConcept_ = 0
Null == 0
\* heap addresses; three suffice for two objects and one temporary
Addrs == {1, 2, 3}
\* a heap cell that holds no container
Free == [type |-> "free", entries |-> <<>>]

\* new: the address a fresh MapModel is placed at
Alloc(s) == CHOOSE a \in Addrs :
                /\ s.heap[a] = Free
                /\ \A b \in Addrs : s.heap[b] = Free => a <= b

\* mapConcept_ points at a container
Live(s, x) == s.ptr[x] # Null /\ s.heap[s.ptr[x]] # Free

\* *mapConcept_
Deref(s, x) == s.heap[s.ptr[x]]

\* the container of x, Free when mapConcept_ points at none
Container(s, x) == IF Live(s, x) THEN Deref(s, x) ELSE Free

\* the (key, value) pairs a container holds
Contents(m) == {m.entries[i] : i \in DOMAIN m.entries}

\* a call forwarded through mapConcept_ that leaves the container as m
Forward(s, x, m) == [s EXCEPT !.heap[s.ptr[x]] = m]

\* all the traversal orders of a set of entries
RECURSIVE Orderings(_)
Orderings(S) ==
    IF S = {} THEN {<<>>}
    ELSE UNION {{<<e>> \o t : t \in Orderings(S \ {e})} : e \in S}

\* MapModel::clone(): the containers new MapModel<MapType>(map_) can hold;
\* the copy of a hash map holds the same entries in an unspecified order
Clones(m) ==
    IF m.type = ORDERED
    THEN {m}
    ELSE {AnyMap(m.type, t) :
             t \in Orderings({m.entries[i] : i \in DOMAIN m.entries})}

\* AnyMap() and AnyMap(MapType m): x owns a new container m
Construct(s, x, m) ==
    LET a == Alloc(s)
    IN  [s EXCEPT !.ptr[x] = a, !.heap[a] = m, !.alive = @ \cup {x}]

\* mutant: the copy shares the container of the original
CopyConstruct_Alias(s, x, o, clone) ==
    [s EXCEPT !.ptr[x] = s.ptr[o], !.alive = @ \cup {x}]

\* AnyMap(AnyMap const& o): mapConcept_(o.mapConcept_->clone())
CopyConstruct(s, x, o, clone) == Construct(s, x, clone)

\* AnyMap(AnyMap&& o): mapConcept_(o.mapConcept_) { o.mapConcept_ = 0; }
MoveConstruct(s, x, o) ==
    [s EXCEPT !.ptr[x] = s.ptr[o], !.ptr[o] = Null, !.alive = @ \cup {x}]

\* ~AnyMap(): delete mapConcept_
Destruct(s, x) ==
    IF s.ptr[x] = Null
    THEN [s EXCEPT !.alive = @ \ {x}]
    ELSE [s EXCEPT !.heap[s.ptr[x]] = Free, !.ptr[x] = Null,
                   !.alive = @ \ {x}]

\* swap(AnyMap& other): the two pointers are exchanged
SwapPointers(s, x, o) ==
    [s EXCEPT !.ptr[x] = s.ptr[o], !.ptr[o] = s.ptr[x]]

\* operator=(AnyMap const& other): a temporary copy is swapped in and takes
\* the old container with it when it is destroyed
CopyAssign(s, x, o, clone) ==
    IF x = o THEN s
    ELSE LET a == Alloc(s)
             old == s.ptr[x]
             t == [s EXCEPT !.heap[a] = clone, !.ptr[x] = a]
         IN  IF old = Null THEN t ELSE [t EXCEPT !.heap[old] = Free]

\* operator=(AnyMap&& other): other.swap(*this)
MoveAssign(s, x, o) == SwapPointers(s, o, x)

-----------------------------------------------------------------------------
(* Counter<V> *)

Counter(coreMap, cachedTotal) ==
    [coreMap_ |-> coreMap, cachedTotal_ |-> cachedTotal]

\* Counter()
CounterDefault == Counter(AnyMapDefault, NumCache(Zero, RELAXED, TRUE))

\* Counter(CoreMap_t coreMap)
CounterFromMap(coreMap) == Counter(coreMap, NumCache(Zero, RELAXED, FALSE))

\* mutant: the copy starts with the cache of a counter built from a map
CounterCopy_FreshCache(other) == CounterFromMap(other.coreMap_)

\* Counter(Counter const&) and operator=(Counter const&): the map is cloned
\* and the cache copied
CounterCopy(other) == Counter(other.coreMap_, other.cachedTotal_)

\* mutant: the count is stored but the cache is not told
IncrementCount_NoCache(c, val, count, pos) ==
    LET m == MapIndex(c.coreMap_, val, Zero, pos)
        i == MapFind(m, val)
    IN  Counter(MapAssign(m, i, Add(MapValue(m, i), count)), c.cachedTotal_)

\* incrementCount(val, count); pos is where the container puts a new entry
IncrementCount(c, val, count, pos) ==
    LET m == MapIndex(c.coreMap_, val, Zero, pos)
        i == MapFind(m, val)
    IN  Counter(MapAssign(m, i, Add(MapValue(m, i), count)),
                CacheAdd(c.cachedTotal_, count))

\* mutant: a value that occurs again in the range is not counted again
RECURSIVE IncrementAllFrom_Once(_, _, _, _)
IncrementAllFrom_Once(c, range, count, i) ==
    IF i > Len(range) THEN {c}
    ELSE IF \E j \in 1..(i - 1) : range[j] = range[i]
         THEN IncrementAllFrom_Once(c, range, count, i + 1)
         ELSE UNION {IncrementAllFrom_Once(
                         IncrementCount(c, range[i], count, pos),
                         range, count, i + 1) :
                     pos \in InsertPositions(c.coreMap_, range[i])}

\* the loop of incrementAll(first, last, count) from element i of the range
\* on: the set of counters it can leave, one per placement of new entries
RECURSIVE IncrementAllFrom(_, _, _, _)
IncrementAllFrom(c, range, count, i) ==
    IF i > Len(range) THEN {c}
    ELSE UNION {IncrementAllFrom(IncrementCount(c, range[i], count, pos),
                                 range, count, i + 1) :
                pos \in InsertPositions(c.coreMap_, range[i])}

\* incrementAll(first, last, count)
IncrementAll(c, range, count) == IncrementAllFrom(c, range, count, 1)

\* Counter(first, last, count)
CounterFromRange(range, count) == IncrementAll(CounterDefault, range, count)

\* size()
CounterSize(c) == MapSize(c.coreMap_)

\* mutant: the count is added to the stored one
SetCount_Accumulates(c, val, count, pos) ==
    LET m == MapIndex(c.coreMap_, val, Zero, pos)
        i == MapFind(m, val)
        storedCount == MapValue(m, i)
    IN  Counter(MapAssign(m, i, Add(storedCount, count)),
                CacheAdd(c.cachedTotal_, Sub(count, storedCount)))

\* setCount(val, count)
SetCount(c, val, count, pos) ==
    LET m == MapIndex(c.coreMap_, val, Zero, pos)
        i == MapFind(m, val)
        storedCount == MapValue(m, i)
    IN  Counter(MapAssign(m, i, count),
                CacheAdd(c.cachedTotal_, Sub(count, storedCount)))

\* mutant: the entry is erased but its count stays in the cache
Remove_NoCache(c, val) ==
    LET i == MapFind(c.coreMap_, val)
    IN  IF i # 0
        THEN Counter(MapErase(c.coreMap_, val), c.cachedTotal_)
        ELSE c

\* mutant: the subtraction from the cache does not wait for the value to be
\* found
Remove_Unconditional(c, val) ==
    LET i == MapFind(c.coreMap_, val)
    IN  IF i # 0
        THEN Counter(MapErase(c.coreMap_, val),
                     CacheSub(c.cachedTotal_, MapValue(c.coreMap_, i)))
        ELSE Counter(c.coreMap_, CacheSub(c.cachedTotal_, Zero))

\* remove(val)
Remove(c, val) ==
    LET i == MapFind(c.coreMap_, val)
    IN  IF i # 0
        THEN Counter(MapErase(c.coreMap_, val),
                     CacheSub(c.cachedTotal_, MapValue(c.coreMap_, i)))
        ELSE c

\* contains(val)
Contains(c, val) == MapFind(c.coreMap_, val) # 0

\* mutant: the count is looked up with operator[], which creates the entry
GetCount_Index(c, val) ==
    IF MapFind(c.coreMap_, val) = 0
    THEN [counter |-> [c EXCEPT !.coreMap_.entries = Append(@, <<val, Zero>>)],
          ret |-> Zero]
    ELSE [counter |-> c,
          ret |-> MapValue(c.coreMap_, MapFind(c.coreMap_, val))]

\* getCount(val): the counter it leaves and the count it returns
GetCount(c, val) ==
    LET i == MapFind(c.coreMap_, val)
    IN  [counter |-> c,
         ret |-> IF i = 0 THEN Zero ELSE MapValue(c.coreMap_, i)]

\* the traversal of totalCount(): sum += i->second
RECURSIVE SumFrom(_, _, _)
SumFrom(m, i, sum) ==
    IF i > Len(m.entries) THEN sum
    ELSE SumFrom(m, i + 1, Add(sum, m.entries[i][2]))

\* totalCount(): the counter it leaves (the cache is set when it was not
\* synched) and the value it returns
TotalCountSync(c) ==
    IF ~IsSynched(c.cachedTotal_)
    THEN [c EXCEPT !.cachedTotal_ = CacheSet(@, SumFrom(c.coreMap_, 1, Zero))]
    ELSE c

TotalCount(c) == CacheGet(TotalCountSync(c).cachedTotal_)

\* x > y and x < y on counts
Greater(x, y) == x[1] * y[2] > y[1] * x[2]
Less(x, y) == Greater(y, x)

\* std::fabs
Fabs(x) == <<Abs(x[1]), x[2]>>

\* V(), the value-initialised value maxValue() returns for maxVal == NULL
DefaultV == 0

\* count > std::numeric_limits<Count_t>::min(): min() is the smallest
\* positive normalized double, which every positive count of the model
\* exceeds and no other count does
ExceedsMin(count) == count[1] > 0

\* the loop of maxValue() from position i on; found stands for
\* maxVal != NULL, and max is numeric_limits::min() until found
RECURSIVE MaxValueFrom(_, _, _, _, _)
MaxValueFrom(m, i, found, max, maxVal) ==
    IF i > Len(m.entries) THEN (IF found THEN maxVal ELSE DefaultV)
    ELSE IF (IF found THEN Greater(m.entries[i][2], max)
                      ELSE ExceedsMin(m.entries[i][2]))
         THEN MaxValueFrom(m, i + 1, TRUE, m.entries[i][2], m.entries[i][1])
         ELSE MaxValueFrom(m, i + 1, found, max, maxVal)

\* maxValue()
MaxValue(c) == MaxValueFrom(c.coreMap_, 1, FALSE, Zero, DefaultV)

\* mutant: counts that differ by exactly the precision pass as equal
RECURSIVE EqualsLoop_Inclusive(_, _, _, _)
EqualsLoop_Inclusive(c, o, precision, i) ==
    IF i > Len(c.coreMap_.entries) THEN TRUE
    ELSE LET oi == MapFind(o.coreMap_, c.coreMap_.entries[i][1])
         IN  IF oi = 0 THEN FALSE
             ELSE IF Greater(Fabs(Sub(c.coreMap_.entries[i][2],
                                      MapValue(o.coreMap_, oi))), precision)
             THEN FALSE
             ELSE EqualsLoop_Inclusive(c, o, precision, i + 1)

\* the loop of equals(o, precision) from position i on
RECURSIVE EqualsLoop(_, _, _, _)
EqualsLoop(c, o, precision, i) ==
    IF i > Len(c.coreMap_.entries) THEN TRUE
    ELSE LET oi == MapFind(o.coreMap_, c.coreMap_.entries[i][1])
         IN  IF oi = 0 THEN FALSE
             ELSE IF ~Less(Fabs(Sub(c.coreMap_.entries[i][2],
                                    MapValue(o.coreMap_, oi))), precision)
             THEN FALSE
             ELSE EqualsLoop(c, o, precision, i + 1)

\* equals(o, precision); same stands for this == &o
Equals(c, o, same, precision) ==
    IF same THEN TRUE
    ELSE IF MapSize(c.coreMap_) # MapSize(o.coreMap_) THEN FALSE
    ELSE EqualsLoop(c, o, precision, 1)

\* mutant: the cache is moved by count, whatever the number of entries
CounterAddScalar_Single(c, count) ==
    Counter([c.coreMap_ EXCEPT !.entries =
                 [i \in DOMAIN @ |-> <<@[i][1], Add(@[i][2], count)>>]],
            CacheAdd(c.cachedTotal_, count))

\* operator+=(Count_t count)
CounterAddScalar(c, count) ==
    Counter([c.coreMap_ EXCEPT !.entries =
                 [i \in DOMAIN @ |-> <<@[i][1], Add(@[i][2], count)>>]],
            CacheAdd(c.cachedTotal_, Mul(count, FromInt(MapSize(c.coreMap_)))))

\* operator-=(Count_t count)
CounterSubScalar(c, count) == CounterAddScalar(c, Neg(count))

\* operator*=(Count_t count)
CounterMulScalar(c, count) ==
    Counter([c.coreMap_ EXCEPT !.entries =
                 [i \in DOMAIN @ |-> <<@[i][1], Mul(@[i][2], count)>>]],
            CacheMul(c.cachedTotal_, count))

\* operator/=(Count_t count), count # 0
CounterDivScalar(c, count) == CounterMulScalar(c, Inv(count))

\* mutant: the cache is left as the scaling left it
Normalize_NoSet(c) ==
    LET synced == TotalCountSync(c)
        total  == CacheGet(synced.cachedTotal_)
    IN  IF total # Zero
        THEN CounterDivScalar(synced, total)
        ELSE CounterMulScalar(synced, Zero)

\* normalize()
Normalize(c) ==
    LET synced == TotalCountSync(c)
        total  == CacheGet(synced.cachedTotal_)
    IN  IF total # Zero
        THEN [CounterDivScalar(synced, total) EXCEPT
                  !.cachedTotal_ = CacheSet(@, One)]
        ELSE [CounterMulScalar(synced, Zero) EXCEPT
                  !.cachedTotal_ = CacheSet(@, Zero)]

\* mutant: a value of o that this counter does not store is skipped
RECURSIVE AddCounterFrom_Present(_, _, _, _, _)
AddCounterFrom_Present(c, o, same, sign, i) ==
    LET rhs == IF same THEN c.coreMap_ ELSE o.coreMap_
    IN  IF i > Len(rhs.entries) THEN {c}
        ELSE LET val   == rhs.entries[i][1]
                 count == Mul(FromInt(sign), rhs.entries[i][2])
             IN  IF ~Contains(c, val)
                 THEN AddCounterFrom_Present(c, o, same, sign, i + 1)
                 ELSE UNION {AddCounterFrom_Present(
                                 IncrementCount(c, val, count, pos),
                                 o, same, sign, i + 1) :
                             pos \in InsertPositions(c.coreMap_, val)}

\* operator+=(Counter const& o) and operator-=(Counter const& o): the loop
\* from position i of o on; sign is 1 or -1, same stands for this == &o, and
\* the result is the set of counters the loop can leave (one per placement
\* of the new entries)
RECURSIVE AddCounterFrom(_, _, _, _, _)
AddCounterFrom(c, o, same, sign, i) ==
    LET rhs == IF same THEN c.coreMap_ ELSE o.coreMap_
    IN  IF i > Len(rhs.entries) THEN {c}
        ELSE LET val   == rhs.entries[i][1]
                 count == Mul(FromInt(sign), rhs.entries[i][2])
             IN  UNION {AddCounterFrom(IncrementCount(c, val, count, pos),
                                       o, same, sign, i + 1) :
                        pos \in InsertPositions(c.coreMap_, val)}

CounterAddCounter(c, o, same) == AddCounterFrom(c, o, same, 1, 1)
CounterSubCounter(c, o, same) == AddCounterFrom(c, o, same, -1, 1)

\* operator+(Counter const& o) const and operator-(Counter const& o) const:
\* tmp(*this); tmp += o (tmp -= o); return tmp
CounterPlus(c, o) == CounterAddCounter(CounterCopy(c), o, FALSE)
CounterMinus(c, o) == CounterSubCounter(CounterCopy(c), o, FALSE)

\* setCachePolicy, getCachePolicy, resetCache, isTotalSynched
CounterSetCachePolicy(c, cachePolicy) ==
    [c EXCEPT !.cachedTotal_ = CacheSetPolicy(@, cachePolicy)]
CounterGetCachePolicy(c) == CacheGetPolicy(c.cachedTotal_)
CounterResetCache(c) == [c EXCEPT !.cachedTotal_ = CacheReset(@)]
IsTotalSynched(c) == IsSynched(c.cachedTotal_)

\* mutant: counters whose caches disagree on the flag are not equal
CounterEq_WithCache(c, o, same) ==
    /\ MapEquals(c.coreMap_, o.coreMap_, same)
    /\ IsSynched(c.cachedTotal_) = IsSynched(o.cachedTotal_)

\* operator==(Counter const& o): coreMap_ == o.coreMap_; same stands for
\* this == &o, when both sides are the one wrapped container
CounterEq(c, o, same) == MapEquals(c.coreMap_, o.coreMap_, same)

\* operator!=(Counter const& o)
CounterNe(c, o, same) == ~CounterEq(c, o, same)

\* every stored count and the cached value are counts the model represents
CounterInBounds(c) ==
    /\ \A i \in DOMAIN c.coreMap_.entries :
           Representable(c.coreMap_.entries[i][2])
    /\ Representable(c.cachedTotal_.value_)

-----------------------------------------------------------------------------
(* CounterMap<K, V>: a map from keys to nested counters, a counter factory
   and a cache of the grand total *)

DefaultCounterFactory == "DefaultCounterFactory"
MapTypeCounterFactory == "MapTypeCounterFactory<std::map>"
Factories == {DefaultCounterFactory, MapTypeCounterFactory}

\* CopyCounterFactory(counter) and the counter a program hands it as
\* source_: Counter() after incrementCount(1, 1)
CopyCounterFactory == "CopyCounterFactory"
CopySource ==
    Counter(AnyMap(UNORDERED, <<(<<1, One>>)>>), NumCache(Zero, RELAXED, FALSE))
SeedingFactories == Factories \cup {CopyCounterFactory}

\* counterFactory_->createCounter()
CreateCounter(factory) ==
    CASE factory = DefaultCounterFactory -> CounterDefault
      [] factory = MapTypeCounterFactory ->
             CounterFromMap(AnyMap(ORDERED, <<>>))
      [] factory = CopyCounterFactory -> CounterCopy(CopySource)

\* CounterMap(CoreMap_t coreMap, CounterFactory const& counterFactory)
CounterMap(coreMap, counterFactory) ==
    [coreMap_ |-> coreMap,
     counterFactory_ |-> counterFactory,
     cachedTotal_ |-> NumCache(Zero, RELAXED, FALSE)]

\* getCounter(key): the nested counter, NONE standing for NULL
GetCounter(m, key) ==
    IF MapFind(m.coreMap_, key) = 0
    THEN <<>>
    ELSE MapValue(m.coreMap_, MapFind(m.coreMap_, key))

\* contains(key) and contains(key, val)
CounterMapContainsKey(m, key) == MapCount(m.coreMap_, key) > 0
CounterMapContains(m, key, val) ==
    LET i == MapFind(m.coreMap_, key)
    IN  IF i = 0 THEN FALSE ELSE Contains(MapValue(m.coreMap_, i), val)

\* size(), size(key) and empty()
CounterMapSize(m) == MapSize(m.coreMap_)
CounterMapSizeKey(m, key) ==
    IF GetCounter(m, key) = <<>> THEN 0 ELSE CounterSize(GetCounter(m, key))
CounterMapEmpty(m) == MapEmpty(m.coreMap_)

\* mutant: the nested counter is looked up with operator[], which creates it
CounterMapGetCount_Index(m, key, val) ==
    IF GetCounter(m, key) = <<>>
    THEN [map |-> [m EXCEPT !.coreMap_.entries =
                       Append(@, <<key, CounterDefault>>)],
          ret |-> Zero]
    ELSE [map |-> m, ret |-> GetCount(GetCounter(m, key), val).ret]

\* getCount(key, val): the map it leaves and the count it returns
CounterMapGetCount(m, key, val) ==
    [map |-> m,
     ret |-> IF GetCounter(m, key) = <<>> THEN Zero
             ELSE GetCount(GetCounter(m, key), val).ret]

\* mutant: the counter of a new key is a default one, whatever the factory
EnsureCounter_NoFactory(m, key, pos) ==
    [m EXCEPT !.coreMap_ = MapInsert(@, key, CounterDefault, pos)]

\* ensureCounter(key): the map with a factory-made counter inserted at pos
\* when key is absent; the reference returned is GetCounter of the result
EnsureCounter(m, key, pos) ==
    [m EXCEPT !.coreMap_ =
         MapInsert(@, key, CreateCounter(m.counterFactory_), pos)]

\* incrementCount(key, val, count)
CounterMapIncrementCount(m, key, val, count, kpos, vpos) ==
    LET e == EnsureCounter(m, key, kpos)
        i == MapFind(e.coreMap_, key)
    IN  [e EXCEPT
           !.coreMap_ = MapAssign(@, i,
                            IncrementCount(MapValue(@, i), val, count, vpos)),
           !.cachedTotal_ = CacheReset(@)]

\* mutant: the grand-total cache is reset only when the count changes
CounterMapSetCount_LazyReset(m, key, val, count, kpos, vpos) ==
    LET e == EnsureCounter(m, key, kpos)
        i == MapFind(e.coreMap_, key)
        c == MapValue(e.coreMap_, i)
    IN  [e EXCEPT
           !.coreMap_ = MapAssign(@, i, SetCount(c, val, count, vpos)),
           !.cachedTotal_ = IF GetCount(c, val).ret = count
                            THEN @ ELSE CacheReset(@)]

\* setCount(key, val, count)
CounterMapSetCount(m, key, val, count, kpos, vpos) ==
    LET e == EnsureCounter(m, key, kpos)
        i == MapFind(e.coreMap_, key)
    IN  [e EXCEPT
           !.coreMap_ = MapAssign(@, i,
                            SetCount(MapValue(@, i), val, count, vpos)),
           !.cachedTotal_ = CacheReset(@)]

\* mutant: the grand-total cache is reset whether or not a key was erased
CounterMapRemoveKey_AlwaysReset(m, key) ==
    [m EXCEPT !.coreMap_ = MapErase(@, key),
              !.cachedTotal_ = CacheReset(@)]

\* remove(key)
CounterMapRemoveKey(m, key) ==
    IF MapCount(m.coreMap_, key) > 0
    THEN [m EXCEPT !.coreMap_ = MapErase(@, key),
                   !.cachedTotal_ = CacheReset(@)]
    ELSE m

\* mutant: a key whose nested counter becomes empty is erased with it
CounterMapRemove_DropsEmpty(m, key, val) ==
    LET i == MapFind(m.coreMap_, key)
    IN  IF i = 0 THEN m
        ELSE IF CounterSize(Remove(MapValue(m.coreMap_, i), val)) = 0
        THEN [m EXCEPT !.coreMap_ = MapErase(@, key)]
        ELSE [m EXCEPT !.coreMap_ =
                  MapAssign(@, i, Remove(MapValue(@, i), val))]

\* remove(key, val): the nested counter is told, the grand-total cache is not
CounterMapRemove(m, key, val) ==
    LET i == MapFind(m.coreMap_, key)
    IN  IF i # 0
        THEN [m EXCEPT !.coreMap_ =
                  MapAssign(@, i, Remove(MapValue(@, i), val))]
        ELSE m

\* mutant: the grand-total cache is left as it was
ConditionalNormalize_KeepsCache(m) ==
    [m EXCEPT
       !.coreMap_.entries = [i \in DOMAIN @ |-> <<@[i][1], Normalize(@[i][2])>>]]

\* conditionalNormalize()
ConditionalNormalize(m) ==
    [m EXCEPT
       !.coreMap_.entries = [i \in DOMAIN @ |-> <<@[i][1], Normalize(@[i][2])>>],
       !.cachedTotal_ = CacheReset(@)]

\* the traversal of totalCount(): total += i->second.totalCount()
RECURSIVE NestedTotalFrom(_, _, _)
NestedTotalFrom(m, i, total) ==
    IF i > Len(m.coreMap_.entries) THEN total
    ELSE NestedTotalFrom(m, i + 1,
             Add(total, TotalCount(m.coreMap_.entries[i][2])))

\* totalCount(): the map it leaves (each nested totalCount() called by the
\* traversal synchronizes that counter's cache) and the value it returns
CounterMapTotalCountSync(m) ==
    IF ~IsSynched(m.cachedTotal_)
    THEN [m EXCEPT
            !.coreMap_.entries =
                [i \in DOMAIN @ |-> <<@[i][1], TotalCountSync(@[i][2])>>],
            !.cachedTotal_ = CacheSet(@, NestedTotalFrom(m, 1, Zero))]
    ELSE m

CounterMapTotalCount(m) == CacheGet(CounterMapTotalCountSync(m).cachedTotal_)

\* totalCount(key): the map it leaves and the value it returns
CounterMapTotalCountKeySync(m, key) ==
    LET i == MapFind(m.coreMap_, key)
    IN  IF i = 0 THEN m
        ELSE [m EXCEPT !.coreMap_ =
                  MapAssign(@, i, TotalCountSync(MapValue(@, i)))]

CounterMapTotalCountKey(m, key) ==
    IF GetCounter(m, key) = <<>> THEN Zero ELSE TotalCount(GetCounter(m, key))

\* CounterMap(CounterMap const& other): the core map and the cache are
\* copied and the factory cloned
CounterMapCopy(other) ==
    [coreMap_ |-> other.coreMap_,
     counterFactory_ |-> other.counterFactory_,
     cachedTotal_ |-> other.cachedTotal_]

\* operator==(CounterMap const& other): coreMap_ == other.coreMap_, which
\* compares the nested counters with Counter::operator!=; same stands for
\* this == &other
RECURSIVE CounterMapEqLoop(_, _, _)
CounterMapEqLoop(m, other, i) ==
    IF i > Len(m.coreMap_.entries) THEN TRUE
    ELSE LET oi == MapFind(other.coreMap_, m.coreMap_.entries[i][1])
         IN  IF oi = 0 THEN FALSE
             ELSE IF CounterNe(MapValue(other.coreMap_, oi),
                               m.coreMap_.entries[i][2], FALSE)
             THEN FALSE
             ELSE CounterMapEqLoop(m, other, i + 1)

CounterMapEq(m, other, same) ==
    IF same THEN TRUE
    ELSE IF MapSize(m.coreMap_) # MapSize(other.coreMap_) THEN FALSE
    ELSE CounterMapEqLoop(m, other, 1)

\* mutant: a key of rhs that this map does not hold is skipped
RECURSIVE CounterMapAddFrom_Present(_, _, _, _, _)
CounterMapAddFrom_Present(m, rhs, same, sign, i) ==
    LET r == IF same THEN m.coreMap_ ELSE rhs.coreMap_
    IN  IF i > Len(r.entries) THEN {m}
        ELSE LET key == r.entries[i][1]
                 j   == MapFind(m.coreMap_, key)
             IN  IF j = 0
                 THEN CounterMapAddFrom_Present(m, rhs, same, sign, i + 1)
                 ELSE UNION {CounterMapAddFrom_Present(
                                 [m EXCEPT !.coreMap_ = MapAssign(@, j, nc)],
                                 rhs, same, sign, i + 1) :
                             nc \in AddCounterFrom(MapValue(m.coreMap_, j),
                                                   r.entries[i][2],
                                                   same, sign, 1)}

\* operator+=(CounterMap const& rhs) and operator-=(CounterMap const& rhs):
\* the loop from position i of rhs on; sign is 1 or -1, same stands for
\* this == &rhs, and the result is the set of maps the loop can leave
RECURSIVE CounterMapAddFrom(_, _, _, _, _)
CounterMapAddFrom(m, rhs, same, sign, i) ==
    LET r == IF same THEN m.coreMap_ ELSE rhs.coreMap_
    IN  IF i > Len(r.entries) THEN {m}
        ELSE LET key == r.entries[i][1]
             IN  UNION {
                   LET e == EnsureCounter(m, key, kpos)
                       j == MapFind(e.coreMap_, key)
                   IN  UNION {CounterMapAddFrom(
                                  [e EXCEPT !.coreMap_ = MapAssign(@, j, nc)],
                                  rhs, same, sign, i + 1) :
                              nc \in AddCounterFrom(MapValue(e.coreMap_, j),
                                                    r.entries[i][2],
                                                    same, sign, 1)} :
                   kpos \in InsertPositions(m.coreMap_, key)}

CounterMapAddMap(m, rhs, same) == CounterMapAddFrom(m, rhs, same, 1, 1)
CounterMapSubMap(m, rhs, same) == CounterMapAddFrom(m, rhs, same, -1, 1)

\* operator+(lhs, rhs): tmp = lhs; tmp += rhs; return tmp
CounterMapPlus(lhs, rhs) == CounterMapAddMap(CounterMapCopy(lhs), rhs, FALSE)

\* operator-(CounterMap&& tmp, rhs): tmp -= rhs; return tmp
CounterMapMinusFrom(tmp, rhs) == CounterMapSubMap(tmp, rhs, FALSE)

\* every nested counter and the cached grand total stay representable
CounterMapInBounds(m) ==
    /\ \A i \in DOMAIN m.coreMap_.entries :
           CounterInBounds(m.coreMap_.entries[i][2])
    /\ Representable(m.cachedTotal_.value_)

-----------------------------------------------------------------------------
(* CounterMap factory ownership: every CounterMap object holds its factory
   through the pointer counterFactory_. A store holds the pointer of each
   object, the factory objects on the heap and the set of objects that are
   constructed; the caller's own factory is on the same heap. *)

\* heap addresses: the caller's factory, and one more for every object and
\* for every call that can clone
FactoryAddrs == 1..(MaxMapOps + 3)

\* a heap cell that holds no factory
NoFactory == "none"

\* new: the address a fresh factory object is placed at
AllocFactory(s) == CHOOSE a \in FactoryAddrs :
                       /\ s.heap[a] = NoFactory
                       /\ \A b \in FactoryAddrs : s.heap[b] = NoFactory => a <= b

\* CounterFactory::clone(): a new factory object of the kind of the one at f
CloneFactory(s, f) == [s EXCEPT !.heap[AllocFactory(s)] = s.heap[f]]

\* CounterMap(CoreMap_t, CounterFactory const& counterFactory):
\* counterFactory_(counterFactory.clone())
ConstructWithFactory(s, x, f) ==
    [CloneFactory(s, f) EXCEPT !.fac[x] = AllocFactory(s),
                               !.alive = @ \cup {x}]

\* CounterMap(CounterMap const& other):
\* counterFactory_(other.counterFactory_->clone())
CopyConstructMap(s, x, o) == ConstructWithFactory(s, x, s.fac[o])

\* CounterMap(CounterMap&& other): counterFactory_(NULL), then swap(other)
MoveConstructMap(s, x, o) ==
    [s EXCEPT !.fac[x] = s.fac[o], !.fac[o] = Null, !.alive = @ \cup {x}]

\* ~CounterMap(): delete counterFactory_
DestructMap(s, x) ==
    IF s.fac[x] = Null
    THEN [s EXCEPT !.alive = @ \ {x}]
    ELSE [s EXCEPT !.heap[s.fac[x]] = NoFactory, !.fac[x] = Null,
                   !.alive = @ \ {x}]

\* mutant: the assignment copies the pointer instead of cloning
CopyAssignMap_Shallow(s, x, o) == [s EXCEPT !.fac[x] = s.fac[o]]

\* operator=(CounterMap const& other):
\* counterFactory_ = other.counterFactory_->clone(); the factory held before
\* is not deleted and stays on the heap
CopyAssignMap(s, x, o) ==
    [CloneFactory(s, s.fac[o]) EXCEPT !.fac[x] = AllocFactory(s)]

\* swap(CounterMap& other): std::swap(counterFactory_, other.counterFactory_)
SwapMap(s, x, o) == [s EXCEPT !.fac[x] = s.fac[o], !.fac[o] = s.fac[x]]

\* operator=(CounterMap&& other): swap(other)
MoveAssignMap(s, x, o) == SwapMap(s, x, o)

-----------------------------------------------------------------------------
(* Nested counters as objects: the top-level container of a CounterMap
   holds its nested Counter objects, each with a container and a cache of
   its own behind pointers. A store holds, for every CounterMap object, its
   value with the address of a cell in place of each nested counter, the
   cells, and the set of objects that are constructed. *)

\* cells for the nested counters of two maps, and of the copy an assignment
\* makes before the old container goes
CellAddrs == 1..(3 * Cardinality(Keys))

\* a cell no nested counter occupies
FreeCell == Counter(AnyMap("freed", <<>>), NumCacheDefault)

FreeAddrs(s) == {a \in CellAddrs : s.heap[a] = FreeCell}

\* the n-th free cell, the one an allocation takes
NthFree(s, n) ==
    CHOOSE a \in FreeAddrs(s) : Cardinality({b \in FreeAddrs(s) : b < a}) = n - 1

\* the cells of the nested counters of x
CellsOf(s, x) ==
    {s.obj[x].coreMap_.entries[i][2] : i \in DOMAIN s.obj[x].coreMap_.entries}

\* the value of x: every nested counter read through its pointers
LoadMap(s, x) ==
    [s.obj[x] EXCEPT
       !.coreMap_.entries = [i \in DOMAIN @ |-> <<@[i][1], s.heap[@[i][2]]>>]]

\* x becomes v: the nested counters of the keys in keep are the objects they
\* were and are written in place, those of the other keys of v are new
\* objects, and those x held for any other key are destroyed
StoreMap(s, x, v, keep) ==
    LET old      == s.obj[x].coreMap_
        new      == v.coreMap_.entries
        IsNew(i) == new[i][1] \notin keep
        Rank(i)  == Cardinality({j \in 1..i : IsNew(j)})
        Addr(i)  == IF IsNew(i) THEN NthFree(s, Rank(i))
                    ELSE MapValue(old, MapFind(old, new[i][1]))
        dropped  == {old.entries[j][2] : j \in {j \in DOMAIN old.entries :
                                                  old.entries[j][1] \notin keep}}
    IN  [obj   |-> [s.obj EXCEPT ![x] =
                       [v EXCEPT !.coreMap_.entries =
                            [i \in DOMAIN @ |-> <<@[i][1], Addr(i)>>]]],
         heap  |-> [a \in CellAddrs |->
                       IF \E i \in DOMAIN new : Addr(i) = a
                       THEN new[CHOOSE i \in DOMAIN new : Addr(i) = a][2]
                       ELSE IF a \in dropped THEN FreeCell
                       ELSE s.heap[a]],
         alive |-> s.alive \cup {x}]

\* a modifier of x that leaves the value v: the nested counters of the keys
\* that stay are updated through the references ensureCounter and the
\* iterators give
UpdateMap(s, x, v) ==
    StoreMap(s, x, v, MapKeys(s.obj[x].coreMap_) \cap MapKeys(v.coreMap_))

\* mutant: the copy holds the nested counters of the original
CopyMapCells_Shallow(s, x, o) ==
    [obj   |-> [s.obj EXCEPT ![x] = s.obj[o]],
     heap  |-> [a \in CellAddrs |->
                   IF a \in CellsOf(s, x) THEN FreeCell ELSE s.heap[a]],
     alive |-> s.alive \cup {x}]

\* CounterMap(CounterMap const& other) and operator=(CounterMap const&
\* other): coreMap_(other.coreMap_) clones the container, which copies every
\* pair with Counter(Counter const&), a new container and a new cache each;
\* the nested counters x held go with its old container
CopyMapCells(s, x, o) == StoreMap(s, x, CounterMapCopy(LoadMap(s, o)), {})

-----------------------------------------------------------------------------
(* Counter cache ownership: every Counter object holds its cache through the
   pointer cachedTotal_. A store holds the container and the pointer of each
   object, the caches on the heap and the set of objects that are
   constructed. *)

\* heap addresses: one for every object and one more for every call
CacheAddrs == 1..(MaxOps + 2)

\* a heap cell that holds no cache
NoCache == NumCache(Zero, "none", FALSE)

\* new CountCache(...): the address the new cache is placed at
AllocCache(s) == CHOOSE a \in CacheAddrs :
                     /\ s.heap[a] = NoCache
                     /\ \A b \in CacheAddrs : s.heap[b] = NoCache => a <= b

\* the counter x is, read through its pointer
LoadCounter(s, x) == Counter(s.map[x], s.heap[s.ptr[x]])

\* a member function that leaves x as the counter c, written in place
StoreCounter(s, x, c) ==
    [s EXCEPT !.map[x] = c.coreMap_, !.heap[s.ptr[x]] = c.cachedTotal_]

\* Counter(), Counter(CoreMap_t) and Counter(Counter const& other): the
\* members of c, the cache a new object
ConstructCounter(s, x, c) ==
    [s EXCEPT !.map[x] = c.coreMap_,
              !.ptr[x] = AllocCache(s),
              !.heap[AllocCache(s)] = c.cachedTotal_,
              !.alive = @ \cup {x}]

\* swap(Counter& other): coreMap_.swap(other.coreMap_) and
\* swap(cachedTotal_, other.cachedTotal_)
SwapCounter(s, x, o) ==
    [s EXCEPT !.map[x] = s.map[o], !.map[o] = s.map[x],
              !.ptr[x] = s.ptr[o], !.ptr[o] = s.ptr[x]]

\* Counter(Counter&& other): coreMap_(), cachedTotal_(NULL), then swap(other)
MoveConstructCounter(s, x, o) ==
    SwapCounter([s EXCEPT !.map[x] = AnyMapDefault, !.ptr[x] = Null,
                          !.alive = @ \cup {x}],
                x, o)

\* operator=(Counter&& rhs): swap(rhs)
MoveAssignCounter(s, x, o) == SwapCounter(s, x, o)

\* ~Counter(): delete cachedTotal_
DestructCounter(s, x) ==
    IF s.ptr[x] = Null
    THEN [s EXCEPT !.alive = @ \ {x}]
    ELSE [s EXCEPT !.heap[s.ptr[x]] = NoCache, !.ptr[x] = Null,
                   !.alive = @ \ {x}]

-----------------------------------------------------------------------------
(* History and the parts of the state a specification does not use *)

NONE == <<>>
Idle == "idle"

Call(op, obj, a, b, ret) == [op |-> op, obj |-> obj, a |-> a, b |-> b, ret |-> ret]

-----------------------------------------------------------------------------
(* Specification of NumCache: one cache object and its public methods *)

InitNumCache ==
    /\ cache \in {NumCacheDefault}
                 \cup {NumCache(v, p, TRUE) : v \in Counts, p \in Policies}
                 \cup {NumCache(v, p, b) : v \in Counts, p \in Policies,
                                           b \in BOOLEAN}
    /\ counters = Idle /\ cmap = Idle /\ maps = Idle
    /\ last = Call("NumCache", NONE, NONE, NONE, NONE)
    /\ nops = 0

NumCacheStep(c, call) ==
    /\ Representable(c.value_)
    /\ cache' = c
    /\ last' = call
    /\ UNCHANGED <<counters, cmap, maps, nops>>

NumCacheSet ==
    \E v \in Counts :
        NumCacheStep(CacheSet(cache, v), Call("set", NONE, v, NONE, NONE))

NumCacheGet ==
    NumCacheStep(cache, Call("get", NONE, NONE, NONE, CacheGet(cache)))

NumCacheSetCachePolicy ==
    \E p \in Policies :
        NumCacheStep(CacheSetPolicy(cache, p),
                     Call("setCachePolicy", NONE, p, NONE, NONE))

NumCacheGetCachePolicy ==
    NumCacheStep(cache, Call("getCachePolicy", NONE, NONE, NONE,
                             CacheGetPolicy(cache)))

NumCacheIsSynched ==
    NumCacheStep(cache, Call("isSynched", NONE, NONE, NONE, IsSynched(cache)))

NumCacheReset ==
    NumCacheStep(CacheReset(cache), Call("reset", NONE, NONE, NONE, NONE))

NumCachePlus ==
    \E n \in Counts :
        NumCacheStep(CacheAdd(cache, n), Call("+=", NONE, n, NONE, NONE))

NumCacheMinus ==
    \E n \in Counts :
        NumCacheStep(CacheSub(cache, n), Call("-=", NONE, n, NONE, NONE))

NumCacheTimes ==
    \E n \in Counts :
        NumCacheStep(CacheMul(cache, n), Call("*=", NONE, n, NONE, NONE))

NumCacheDivide ==
    \E n \in Counts :
        /\ cache.cachePolicy_ = PERSISTENT => n # Zero
        /\ NumCacheStep(CacheDiv(cache, n), Call("/=", NONE, n, NONE, NONE))

NextNumCache ==
    \/ NumCacheSet
    \/ NumCacheGet
    \/ NumCacheSetCachePolicy
    \/ NumCacheGetCachePolicy
    \/ NumCacheIsSynched
    \/ NumCacheReset
    \/ NumCachePlus
    \/ NumCacheMinus
    \/ NumCacheTimes
    \/ NumCacheDivide

SpecNumCache == InitNumCache /\ [][NextNumCache]_vars

-----------------------------------------------------------------------------
(* Specification of Counter: two Counter objects, c and o, and the calls a
   program can make on them *)

CObjs == {"c", "o"}

\* the program calls the one-object methods on c; o is the other operand of
\* the two-object ones (arithmetic, copy, swap)
Mutated == {"c"}

\* maps a caller can build before handing them to Counter(CoreMap_t)
PrebuiltMaps ==
    {AnyMap(ORDERED, <<(<<1, One>>), (<<2, One>>)>>),
     AnyMap(UNORDERED, <<(<<2, FromInt(-1)>>)>>)}

\* the counters a program starts with: Counter() or Counter(CoreMap_t)
InitCounter ==
    /\ counters \in [CObjs -> {CounterDefault}
                                \cup {CounterFromMap(m) : m \in PrebuiltMaps}]
    /\ cache = Idle /\ cmap = Idle /\ maps = Idle
    /\ last = Call("Counter", NONE, NONE, NONE, NONE)
    /\ nops = 0

\* one call on object x leaving it as c
CounterStep(x, c, call) ==
    /\ CounterInBounds(c)
    /\ counters' = [counters EXCEPT ![x] = c]
    /\ last' = call
    /\ nops' = nops + 1
    /\ UNCHANGED <<cache, cmap, maps>>

CounterIncrementCount ==
    /\ nops < MaxOps
    /\ \E x \in Mutated, val \in Vals, count \in Amounts :
        \E pos \in InsertPositions(counters[x].coreMap_, val) :
            CounterStep(x, IncrementCount(counters[x], val, count, pos),
                        Call("incrementCount", x, val, count, NONE))

CounterSetCount ==
    /\ nops < MaxOps
    /\ \E x \in Mutated, val \in Vals, count \in Amounts :
        \E pos \in InsertPositions(counters[x].coreMap_, val) :
            CounterStep(x, SetCount(counters[x], val, count, pos),
                        Call("setCount", x, val, count, NONE))

CounterRemove ==
    /\ nops < MaxOps
    /\ \E x \in Mutated, val \in Vals :
        CounterStep(x, Remove(counters[x], val),
                    Call("remove", x, val, NONE, NONE))

CounterNormalize ==
    /\ nops < MaxOps
    /\ \E x \in Mutated :
        CounterStep(x, Normalize(counters[x]),
                    Call("normalize", x, NONE, NONE, NONE))

CounterTotalCount ==
    /\ nops < MaxOps
    /\ \E x \in Mutated :
        CounterStep(x, TotalCountSync(counters[x]),
                    Call("totalCount", x, NONE, NONE, TotalCount(counters[x])))

CounterPlusCounter ==
    /\ nops < MaxOps
    /\ \E x \in CObjs, y \in CObjs :
        \E c \in CounterAddCounter(counters[x], counters[y], x = y) :
            CounterStep(x, c, Call("+=", x, y, NONE, NONE))

CounterMinusCounter ==
    /\ nops < MaxOps
    /\ \E x \in CObjs, y \in CObjs :
        \E c \in CounterSubCounter(counters[x], counters[y], x = y) :
            CounterStep(x, c, Call("-=", x, y, NONE, NONE))

CounterPlusScalar ==
    /\ nops < MaxOps
    /\ \E x \in Mutated, n \in Scalars :
        CounterStep(x, CounterAddScalar(counters[x], n),
                    Call("+=n", x, n, NONE, NONE))

CounterMinusScalar ==
    /\ nops < MaxOps
    /\ \E x \in Mutated, n \in Scalars :
        CounterStep(x, CounterSubScalar(counters[x], n),
                    Call("-=n", x, n, NONE, NONE))

CounterTimesScalar ==
    /\ nops < MaxOps
    /\ \E x \in Mutated, n \in Scalars :
        CounterStep(x, CounterMulScalar(counters[x], n),
                    Call("*=n", x, n, NONE, NONE))

CounterDivideScalar ==
    /\ nops < MaxOps
    /\ \E x \in Mutated, n \in Scalars \ {Zero} :
        CounterStep(x, CounterDivScalar(counters[x], n),
                    Call("/=n", x, n, NONE, NONE))

CounterSetPolicy ==
    /\ nops < MaxOps
    /\ \E x \in Mutated, p \in Policies :
        CounterStep(x, CounterSetCachePolicy(counters[x], p),
                    Call("setCachePolicy", x, p, NONE, NONE))

CounterGetPolicy ==
    /\ nops < MaxOps
    /\ \E x \in Mutated :
        CounterStep(x, counters[x],
                    Call("getCachePolicy", x, NONE, NONE,
                         CounterGetCachePolicy(counters[x])))

CounterReset ==
    /\ nops < MaxOps
    /\ \E x \in Mutated :
        CounterStep(x, CounterResetCache(counters[x]),
                    Call("resetCache", x, NONE, NONE, NONE))

\* x = y (copy assignment; a self-assignment changes nothing) and the copy
\* construction of a new object x from y in place of the old x
CounterCopyAssign ==
    /\ nops < MaxOps
    /\ \E x \in CObjs, y \in CObjs :
        CounterStep(x, IF x # y THEN CounterCopy(counters[y]) ELSE counters[x],
                    Call("copy", x, y, NONE, NONE))

\* x.swap(y): the maps and the cache pointers change places
CounterSwap ==
    /\ nops < MaxOps
    /\ \E x \in CObjs : \E y \in CObjs \ {x} :
        /\ counters' = [counters EXCEPT ![x] = counters[y], ![y] = counters[x]]
        /\ last' = Call("swap", x, y, NONE, NONE)
        /\ nops' = nops + 1
        /\ UNCHANGED <<cache, cmap, maps>>

NextCounter ==
    \/ CounterIncrementCount
    \/ CounterSetCount
    \/ CounterRemove
    \/ CounterNormalize
    \/ CounterTotalCount
    \/ CounterPlusCounter
    \/ CounterMinusCounter
    \/ CounterPlusScalar
    \/ CounterMinusScalar
    \/ CounterTimesScalar
    \/ CounterDivideScalar
    \/ CounterSetPolicy
    \/ CounterGetPolicy
    \/ CounterReset
    \/ CounterCopyAssign
    \/ CounterSwap

SpecCounter == InitCounter /\ [][NextCounter]_vars

-----------------------------------------------------------------------------
(* Specification of Counter values: the calls that change a counter or only
   its cache, copies, and the equality operators *)

CounterEqual ==
    /\ nops < MaxOps
    /\ \E x \in CObjs, y \in CObjs :
        CounterStep(x, counters[x],
                    Call("==", x, y, NONE,
                         CounterEq(counters[x], counters[y], x = y)))

CounterNotEqual ==
    /\ nops < MaxOps
    /\ \E x \in CObjs, y \in CObjs :
        CounterStep(x, counters[x],
                    Call("!=", x, y, NONE,
                         CounterNe(counters[x], counters[y], x = y)))

NextCounterValue ==
    \/ CounterIncrementCount
    \/ CounterSetCount
    \/ CounterTotalCount
    \/ CounterSetPolicy
    \/ CounterReset
    \/ CounterCopyAssign
    \/ CounterEqual
    \/ CounterNotEqual

SpecCounterValue == InitCounter /\ [][NextCounterValue]_vars

-----------------------------------------------------------------------------
(* Specification of Counter queries: the calls that fill a counter and the
   calls that look into it *)

\* the precisions a caller hands to equals
Precisions == {Zero, Frac(1, 2), One}

CounterGetCount ==
    /\ nops < MaxOps
    /\ \E x \in Mutated, val \in Vals :
        CounterStep(x, GetCount(counters[x], val).counter,
                    Call("getCount", x, val, NONE,
                         GetCount(counters[x], val).ret))

CounterContains ==
    /\ nops < MaxOps
    /\ \E x \in Mutated, val \in Vals :
        CounterStep(x, counters[x],
                    Call("contains", x, val, NONE, Contains(counters[x], val)))

CounterMaxValue ==
    /\ nops < MaxOps
    /\ \E x \in Mutated :
        CounterStep(x, counters[x],
                    Call("maxValue", x, NONE, NONE, MaxValue(counters[x])))

CounterEquals ==
    /\ nops < MaxOps
    /\ \E x \in Mutated, y \in CObjs, precision \in Precisions :
        CounterStep(x, counters[x],
                    Call("equals", x, y, precision,
                         Equals(counters[x], counters[y], x = y, precision)))

NextCounterQuery ==
    \/ CounterIncrementCount
    \/ CounterSetCount
    \/ CounterRemove
    \/ CounterNormalize
    \/ CounterTotalCount
    \/ CounterSetPolicy
    \/ CounterGetCount
    \/ CounterContains
    \/ CounterMaxValue
    \/ CounterEquals

SpecCounterQuery == InitCounter /\ [][NextCounterQuery]_vars

-----------------------------------------------------------------------------
(* Specification of Counter ranges: a program that holds one range of values
   and one uniform amount, builds counters from the range and hands it to
   incrementAll. The variable maps holds the range and the amount *)

\* the ranges [first, last) a caller can hand over
ValueRanges == SeqsUpTo(Vals, MaxRange)

\* the uniform amounts a caller passes with a range
RangeAmounts == {Zero, One, FromInt(-1), Frac(1, 2)}

InitCounterRange ==
    /\ \E c \in {CounterDefault} \cup {CounterFromMap(m) : m \in PrebuiltMaps} :
         counters = [x \in CObjs |-> IF x \in Mutated THEN c ELSE CounterDefault]
    /\ \E range \in ValueRanges, count \in RangeAmounts :
         maps = [range |-> range, count |-> count]
    /\ cache = Idle /\ cmap = Idle
    /\ last = Call("Counter", NONE, NONE, NONE, NONE)
    /\ nops = 0

\* one call that leaves object x as c, whatever the size of its counts
RangeStep(x, c, call) ==
    /\ counters' = [counters EXCEPT ![x] = c]
    /\ last' = call
    /\ nops' = nops + 1
    /\ UNCHANGED <<cache, cmap, maps>>

\* a new counter built from the range takes the place of x
CounterRangeConstruct ==
    /\ nops < MaxOps
    /\ \E x \in Mutated :
        \E c \in CounterFromRange(maps.range, maps.count) :
            RangeStep(x, c, Call("Counter(first, last)", x,
                                 maps.range, maps.count, NONE))

CounterIncrementAll ==
    /\ nops < MaxOps
    /\ \E x \in Mutated :
        \E c \in IncrementAll(counters[x], maps.range, maps.count) :
            RangeStep(x, c, Call("incrementAll", x,
                                 maps.range, maps.count, NONE))

CounterSizeOf ==
    /\ nops < MaxOps
    /\ \E x \in Mutated :
        RangeStep(x, counters[x],
                  Call("size", x, NONE, NONE, CounterSize(counters[x])))

NextCounterRange ==
    \/ CounterRangeConstruct
    \/ CounterIncrementAll
    \/ CounterSizeOf
    \/ CounterTotalCount
    \/ CounterSetPolicy

SpecCounterRange == InitCounterRange /\ [][NextCounterRange]_vars

-----------------------------------------------------------------------------
(* Specification of Counter arithmetic by counter: the counters of
   InitCounter, the calls that fill c, the compound operators on either
   counter and the binary operators, whose temporaries are kept in the
   history of the last call *)

\* x + y: the sum is a temporary, neither operand changes
CounterSum ==
    /\ nops < MaxOps
    /\ \E x \in CObjs, y \in CObjs :
        \E sum \in CounterPlus(counters[x], counters[y]) :
            /\ CounterInBounds(sum)
            /\ last' = Call("+", x, y, NONE, sum)
            /\ nops' = nops + 1
            /\ UNCHANGED <<cache, counters, cmap, maps>>

\* (x + y) - z: z is subtracted from a copy of the temporary x + y returned
CounterSumMinus ==
    /\ nops < MaxOps
    /\ last.op = "+"
    /\ \E z \in CObjs :
        \E diff \in CounterMinus(last.ret, counters[z]) :
            /\ CounterInBounds(diff)
            /\ last' = Call("(+)-", last.obj, last.a, z, diff)
            /\ nops' = nops + 1
            /\ UNCHANGED <<cache, counters, cmap, maps>>

NextCounterSum ==
    \/ CounterIncrementCount
    \/ CounterSetCount
    \/ CounterPlusCounter
    \/ CounterMinusCounter
    \/ CounterSum
    \/ CounterSumMinus

SpecCounterSum == InitCounter /\ [][NextCounterSum]_vars

-----------------------------------------------------------------------------
(* Specification of Counter arithmetic by scalar: a counter c built empty or
   from a map, the calls that fill it, set its policy and synchronize its
   cache, and the four compound operators that take a count *)

\* maps a caller can build before handing them to Counter(CoreMap_t); their
\* counts leave room for the scalars
ScalarMaps ==
    {AnyMap(ORDERED, <<(<<1, FromInt(-1)>>), (<<2, FromInt(-1)>>)>>),
     AnyMap(UNORDERED, <<(<<2, Frac(1, 2)>>), (<<1, Frac(1, 2)>>)>>)}

InitCounterScalar ==
    /\ \E c \in {CounterDefault} \cup {CounterFromMap(m) : m \in ScalarMaps} :
           counters = [x \in CObjs |-> IF x = "c" THEN c ELSE CounterDefault]
    /\ cache = Idle /\ cmap = Idle /\ maps = Idle
    /\ last = Call("Counter", NONE, NONE, NONE, NONE)
    /\ nops = 0

NextCounterScalar ==
    \/ CounterIncrementCount
    \/ CounterSetPolicy
    \/ CounterTotalCount
    \/ CounterPlusScalar
    \/ CounterMinusScalar
    \/ CounterTimesScalar
    \/ CounterDivideScalar

SpecCounterScalar == InitCounterScalar /\ [][NextCounterScalar]_vars

-----------------------------------------------------------------------------
(* Specifications of CounterMap: two CounterMap objects, m and rhs, and the
   calls a program can make on them *)

MObjs == {"m", "rhs"}

\* the program calls the one-object methods on m; rhs is the right-hand
\* side of the map arithmetic
MutatedMaps == {"m"}

\* core maps a caller can build before handing them to CounterMap(CoreMap_t)
PrebuiltCoreMaps ==
    {AnyMapDefault,
     AnyMap(ORDERED,
            <<(<<1, CounterFromMap(AnyMap(ORDERED, <<(<<1, One>>)>>))>>)>>)}

InitCounterMap ==
    /\ cmap \in [MObjs -> {CounterMap(cm, f) :
                               cm \in PrebuiltCoreMaps, f \in Factories}]
    /\ cache = Idle /\ counters = Idle /\ maps = Idle
    /\ last = Call("CounterMap", NONE, NONE, NONE, NONE)
    /\ nops = 0

\* one call on object x leaving it as m
CounterMapStep(x, m, call) ==
    /\ CounterMapInBounds(m)
    /\ cmap' = [cmap EXCEPT ![x] = m]
    /\ last' = call
    /\ nops' = nops + 1
    /\ UNCHANGED <<cache, counters, maps>>

MapIncrementCount ==
    /\ nops < MaxMapOps
    /\ \E x \in MutatedMaps, key \in Keys, val \in Vals, count \in Amounts :
        \E kpos \in InsertPositions(cmap[x].coreMap_, key) :
          \E vpos \in InsertPositions(
                         GetCounter(EnsureCounter(cmap[x], key, kpos), key).coreMap_,
                         val) :
            CounterMapStep(x,
                CounterMapIncrementCount(cmap[x], key, val, count, kpos, vpos),
                Call("incrementCount", x, <<key, val>>, count, NONE))

MapSetCount ==
    /\ nops < MaxMapOps
    /\ \E x \in MutatedMaps, key \in Keys, val \in Vals, count \in Amounts :
        \E kpos \in InsertPositions(cmap[x].coreMap_, key) :
          \E vpos \in InsertPositions(
                         GetCounter(EnsureCounter(cmap[x], key, kpos), key).coreMap_,
                         val) :
            CounterMapStep(x,
                CounterMapSetCount(cmap[x], key, val, count, kpos, vpos),
                Call("setCount", x, <<key, val>>, count, NONE))

MapRemoveKey ==
    /\ nops < MaxMapOps
    /\ \E x \in MutatedMaps, key \in Keys :
        CounterMapStep(x, CounterMapRemoveKey(cmap[x], key),
                       Call("remove(key)", x, key, NONE, NONE))

MapRemove ==
    /\ nops < MaxMapOps
    /\ \E x \in MutatedMaps, key \in Keys, val \in Vals :
        CounterMapStep(x, CounterMapRemove(cmap[x], key, val),
                       Call("remove(key,val)", x, <<key, val>>, NONE, NONE))

MapConditionalNormalize ==
    /\ nops < MaxMapOps
    /\ \E x \in MutatedMaps :
        CounterMapStep(x, ConditionalNormalize(cmap[x]),
                       Call("conditionalNormalize", x, NONE, NONE, NONE))

MapTotalCount ==
    /\ nops < MaxMapOps
    /\ \E x \in MutatedMaps :
        CounterMapStep(x, CounterMapTotalCountSync(cmap[x]),
                       Call("totalCount", x, NONE, NONE,
                            CounterMapTotalCount(cmap[x])))

MapTotalCountKey ==
    /\ nops < MaxMapOps
    /\ \E x \in MutatedMaps, key \in Keys :
        CounterMapStep(x, CounterMapTotalCountKeySync(cmap[x], key),
                       Call("totalCount(key)", x, key, NONE,
                            CounterMapTotalCountKey(cmap[x], key)))

MapPlusMap ==
    /\ nops < MaxMapOps
    /\ \E x \in MutatedMaps, y \in MObjs :
        \E m \in CounterMapAddMap(cmap[x], cmap[y], x = y) :
            CounterMapStep(x, m, Call("+=", x, y, NONE, NONE))

MapMinusMap ==
    /\ nops < MaxMapOps
    /\ \E x \in MutatedMaps, y \in MObjs :
        \E m \in CounterMapSubMap(cmap[x], cmap[y], x = y) :
            CounterMapStep(x, m, Call("-=", x, y, NONE, NONE))

\* the calls that store, remove, normalize and total counts
NextCounterMap ==
    \/ MapIncrementCount
    \/ MapSetCount
    \/ MapRemoveKey
    \/ MapRemove
    \/ MapConditionalNormalize
    \/ MapTotalCount
    \/ MapTotalCountKey

SpecCounterMap == InitCounterMap /\ [][NextCounterMap]_vars

\* the same calls and the map arithmetic
NextCounterMapArith ==
    \/ NextCounterMap
    \/ MapPlusMap
    \/ MapMinusMap

SpecCounterMapArith == InitCounterMap /\ [][NextCounterMapArith]_vars

-----------------------------------------------------------------------------
(* Specification of CounterMap lookups: the calls that store and remove
   counts and the calls that look into the map *)

MapContainsKey ==
    /\ nops < MaxMapOps
    /\ \E x \in MutatedMaps, key \in Keys :
        CounterMapStep(x, cmap[x],
                       Call("contains(key)", x, key, NONE,
                            CounterMapContainsKey(cmap[x], key)))

MapContains ==
    /\ nops < MaxMapOps
    /\ \E x \in MutatedMaps, key \in Keys, val \in Vals :
        CounterMapStep(x, cmap[x],
                       Call("contains(key,val)", x, key, val,
                            CounterMapContains(cmap[x], key, val)))

MapSizeKey ==
    /\ nops < MaxMapOps
    /\ \E x \in MutatedMaps, key \in Keys :
        CounterMapStep(x, cmap[x],
                       Call("size(key)", x, key, NONE,
                            CounterMapSizeKey(cmap[x], key)))

MapIsEmpty ==
    /\ nops < MaxMapOps
    /\ \E x \in MutatedMaps :
        CounterMapStep(x, cmap[x],
                       Call("empty", x, NONE, NONE, CounterMapEmpty(cmap[x])))

MapGetCount ==
    /\ nops < MaxMapOps
    /\ \E x \in MutatedMaps, key \in Keys, val \in Vals :
        CounterMapStep(x, CounterMapGetCount(cmap[x], key, val).map,
                       Call("getCount", x, key, val,
                            CounterMapGetCount(cmap[x], key, val).ret))

MapGetCounter ==
    /\ nops < MaxMapOps
    /\ \E x \in MutatedMaps, key \in Keys :
        CounterMapStep(x, cmap[x],
                       Call("getCounter", x, key, NONE,
                            GetCounter(cmap[x], key)))

NextCounterMapLookup ==
    \/ MapIncrementCount
    \/ MapSetCount
    \/ MapRemoveKey
    \/ MapRemove
    \/ MapTotalCountKey
    \/ MapContainsKey
    \/ MapContains
    \/ MapSizeKey
    \/ MapIsEmpty
    \/ MapGetCount
    \/ MapGetCounter

SpecCounterMapLookup == InitCounterMap /\ [][NextCounterMapLookup]_vars

-----------------------------------------------------------------------------
(* Specification of CounterMap sums: the calls that store counts, += and the
   expressions x + y and (x + y) - z, whose temporaries are kept in the
   history of the last call *)

\* x + y: the sum is a temporary, neither operand changes
MapSum ==
    /\ nops < MaxMapOps
    /\ \E x \in MObjs, y \in MObjs :
        \E sum \in CounterMapPlus(cmap[x], cmap[y]) :
            /\ CounterMapInBounds(sum)
            /\ last' = Call("+", x, y, NONE, sum)
            /\ nops' = nops + 1
            /\ UNCHANGED <<cache, counters, cmap, maps>>

\* (x + y) - z: z is subtracted from the temporary that x + y returned
MapSumMinus ==
    /\ nops < MaxMapOps
    /\ last.op = "+"
    /\ \E z \in MObjs :
        \E diff \in CounterMapMinusFrom(last.ret, cmap[z]) :
            /\ CounterMapInBounds(diff)
            /\ last' = Call("(+)-", last.obj, last.a, z, diff)
            /\ nops' = nops + 1
            /\ UNCHANGED <<cache, counters, cmap, maps>>

NextCounterMapSum ==
    \/ MapIncrementCount
    \/ MapSetCount
    \/ MapRemove
    \/ MapPlusMap
    \/ MapSum
    \/ MapSumMinus

SpecCounterMapSum == InitCounterMap /\ [][NextCounterMapSum]_vars

-----------------------------------------------------------------------------
(* Specification of CounterMap with its factories: m is constructed from a
   prebuilt core map and any of the three factories, rhs, the right-hand
   side of the map arithmetic, from a core map that holds a key *)

InitCounterMapFactory ==
    /\ \E cm \in PrebuiltCoreMaps, f \in SeedingFactories,
          rm \in PrebuiltCoreMaps \ {AnyMapDefault} :
           cmap = [x \in MObjs |->
                      IF x = "m" THEN CounterMap(cm, f)
                      ELSE CounterMap(rm, DefaultCounterFactory)]
    /\ cache = Idle /\ counters = Idle /\ maps = Idle
    /\ last = Call("CounterMap", NONE, NONE, NONE, NONE)
    /\ nops = 0

NextCounterMapFactory ==
    \/ MapIncrementCount
    \/ MapSetCount
    \/ MapRemoveKey
    \/ MapPlusMap

SpecCounterMapFactory == InitCounterMapFactory /\ [][NextCounterMapFactory]_vars

-----------------------------------------------------------------------------
(* Specification of AnyMap: two AnyMap<K, double> objects, a and b, each
   wrapping one of the two container types, and the calls a program can
   make on them *)

AObjs == {"a", "b"}

\* the mapped values the program stores
MapVals == {Zero, One}

\* AnyMap() or AnyMap(MapType): an empty wrapped container
InitAnyMap ==
    /\ maps \in [AObjs -> {AnyMap(t, <<>>) : t \in MapTypes}]
    /\ cache = Idle /\ counters = Idle /\ cmap = Idle
    /\ last = Call("AnyMap", NONE, NONE, NONE, NONE)
    /\ nops = 0

\* one call on object x leaving it as m
AnyMapStep(x, m, call) ==
    /\ maps' = [maps EXCEPT ![x] = m]
    /\ last' = call
    /\ UNCHANGED <<cache, counters, cmap, nops>>

\* x[k] = v
AnyMapIndexAssign ==
    \E x \in AObjs, k \in Keys, v \in MapVals :
      \E pos \in InsertPositions(maps[x], k) :
        LET m == MapIndex(maps[x], k, Zero, pos)
        IN  AnyMapStep(x, MapAssign(m, MapFind(m, k), v),
                       Call("operator[]", x, k, v, NONE))

\* x[k] read: the entry is created when absent, and its value returned
AnyMapIndex ==
    \E x \in AObjs, k \in Keys :
      \E pos \in InsertPositions(maps[x], k) :
        LET m == MapIndex(maps[x], k, Zero, pos)
        IN  AnyMapStep(x, m, Call("[]", x, k, NONE, MapValue(m, MapFind(m, k))))

\* x.at(k) through a mutable or a const x; b tells whether it threw
AnyMapAt ==
    \E x \in AObjs, k \in Keys, overload \in {"at", "at const"} :
        AnyMapStep(x, MapAt(maps[x], k).map,
                   Call(overload, x, k, MapAt(maps[x], k).thrown,
                        MapAt(maps[x], k).ret))

\* x.insert(value_type(k, v)); the bool returned tells whether it inserted
AnyMapInsert ==
    \E x \in AObjs, k \in Keys, v \in MapVals :
      \E pos \in InsertPositions(maps[x], k) :
        AnyMapStep(x, MapInsert(maps[x], k, v, pos),
                   Call("insert", x, k, v, MapFind(maps[x], k) = 0))

\* x.erase(k); the number of entries erased is returned
AnyMapErase ==
    \E x \in AObjs, k \in Keys :
        AnyMapStep(x, MapErase(maps[x], k),
                   Call("erase", x, k, NONE, MapCount(maps[x], k)))

\* x.clear()
AnyMapClear ==
    \E x \in AObjs :
        AnyMapStep(x, MapClear(maps[x]), Call("clear", x, NONE, NONE, NONE))

\* x = y: the wrapped container of y is cloned
AnyMapCopyAssign ==
    \E x \in AObjs, y \in AObjs :
        AnyMapStep(x, maps[y], Call("operator=", x, y, NONE, NONE))

\* x.swap(y)
AnyMapSwap ==
    \E x \in AObjs : \E y \in AObjs \ {x} :
        /\ maps' = [maps EXCEPT ![x] = maps[y], ![y] = maps[x]]
        /\ last' = Call("swap", x, y, NONE, NONE)
        /\ UNCHANGED <<cache, counters, cmap, nops>>

\* x == y
AnyMapEqual ==
    \E x \in AObjs, y \in AObjs :
        AnyMapStep(x, maps[x],
                   Call("==", x, y, NONE, MapEquals(maps[x], maps[y], x = y)))

\* x != y
AnyMapNotEqual ==
    \E x \in AObjs, y \in AObjs :
        AnyMapStep(x, maps[x],
                   Call("!=", x, y, NONE, MapNotEquals(maps[x], maps[y], x = y)))

NextAnyMap ==
    \/ AnyMapIndexAssign
    \/ AnyMapIndex
    \/ AnyMapAt
    \/ AnyMapInsert
    \/ AnyMapErase
    \/ AnyMapClear
    \/ AnyMapCopyAssign
    \/ AnyMapSwap
    \/ AnyMapEqual
    \/ AnyMapNotEqual

SpecAnyMap == InitAnyMap /\ [][NextAnyMap]_vars

-----------------------------------------------------------------------------
(* Specification of AnyMap range insertion: one AnyMap w that starts empty,
   takes single inserts, then the insertion of a range and then erase(xi)
   for each element xi of that range in turn. The variable maps holds w,
   the range and the container as it was before the range was inserted;
   nops is 0 until the range is inserted and then counts the calls *)

\* the ranges a caller can hand to insert(i1, i2)
Ranges == SeqsUpTo(Keys \X {Zero, One}, MaxRange)

InitRange ==
    /\ \E t \in MapTypes, r \in Ranges :
         maps = [w |-> AnyMap(t, <<>>), range |-> r, before |-> AnyMap(t, <<>>)]
    /\ cache = Idle /\ counters = Idle /\ cmap = Idle
    /\ last = Call("AnyMap", NONE, NONE, NONE, NONE)
    /\ nops = 0

\* w.insert(value_type(k, v)); the pair returned is the position of the
\* entry with key k and whether it was inserted
RangeInsertOne ==
    /\ nops = 0
    /\ \E k \in Keys, v \in {Zero, One} :
        \E pos \in InsertPositions(maps.w, k) :
          LET m == MapInsert(maps.w, k, v, pos)
          IN  /\ maps' = [maps EXCEPT !.w = m, !.before = m]
              /\ last' = Call("insert", "w", k, v,
                              <<MapFind(m, k), MapFind(maps.w, k) = 0>>)
              /\ UNCHANGED <<cache, counters, cmap, nops>>

\* w.insert(i1, i2) with [i1, i2) the range
RangeInsertRange ==
    /\ nops = 0
    /\ \E m \in MapInsertRange(maps.w, maps.range, 1) :
        /\ maps' = [maps EXCEPT !.w = m, !.before = maps.w]
        /\ last' = Call("insert(range)", "w", NONE, NONE, NONE)
        /\ nops' = 1
        /\ UNCHANGED <<cache, counters, cmap>>

\* w.erase(xi) for the next element xi of the range
RangeEraseNext ==
    /\ nops >= 1
    /\ nops <= Len(maps.range)
    /\ LET k == maps.range[nops][1]
       IN  /\ maps' = [maps EXCEPT !.w = MapErase(maps.w, k)]
           /\ last' = Call("erase", "w", k, NONE, MapCount(maps.w, k))
           /\ nops' = nops + 1
           /\ UNCHANGED <<cache, counters, cmap>>

NextRange ==
    \/ RangeInsertOne
    \/ RangeInsertRange
    \/ RangeEraseNext

SpecAnyMapRange == InitRange /\ [][NextRange]_vars

-----------------------------------------------------------------------------
(* Specification of AnyMap ownership: two AnyMap objects, w1 and w2, that are
   constructed, copied, moved, swapped, destroyed and used. The variable
   maps holds the store and a record of the latest copy: its source, its
   destination, the contents copied and which of the two was modified since *)

OObjs == {"w1", "w2"}

\* the outcomes of a call through a mapConcept_ that points at no container:
\* the behaviour is undefined, the call faults or yields an unspecified
\* result, and nothing is known of the run after it
Undefined == {"fault", "unspecified"}

NoSnap == [src |-> "none", dst |-> "none", pairs |-> {}, touched |-> {}]

\* the record of a copy of o into x made in store s
Take(s, x, o) ==
    [src |-> o, dst |-> x, pairs |-> Contents(Deref(s, o)), touched |-> {}]

\* the record after a modification of the container of x
Touch(s, x) ==
    IF x \in {s.snap.src, s.snap.dst}
    THEN [s.snap EXCEPT !.touched = @ \cup {x}]
    ELSE s.snap

InitOwnership ==
    /\ \E t1 \in MapTypes, t2 \in MapTypes :
         maps = Construct(
                  Construct([ptr |-> [x \in OObjs |-> Null],
                             heap |-> [a \in Addrs |-> Free],
                             alive |-> {},
                             snap |-> NoSnap],
                            "w1", AnyMap(t1, <<>>)),
                  "w2", AnyMap(t2, <<>>))
    /\ cache = Idle /\ counters = Idle /\ cmap = Idle
    /\ last = Call("AnyMap", NONE, NONE, "ok", NONE)
    /\ nops = 0

\* a step to store s with copy record snap
OwnStep(s, snap, call) ==
    /\ maps' = [s EXCEPT !.snap = snap]
    /\ last' = call
    /\ UNCHANGED <<cache, counters, cmap, nops>>

\* a call through the mapConcept_ of an object that holds no container
OwnUndefined(call) ==
    \E u \in Undefined :
        /\ last' = [call EXCEPT !.b = u, !.ret = NONE]
        /\ UNCHANGED <<maps, cache, counters, cmap, nops>>

\* a method of x forwarded to its container, which it leaves as m
OwnForward(x, m, snap, call) ==
    IF Live(maps, x)
    THEN OwnStep(Forward(maps, x, m), snap, call)
    ELSE OwnUndefined(call)

OwnConstruct ==
    /\ last.b = "ok"
    /\ \E x \in OObjs \ maps.alive, t \in MapTypes :
        OwnStep(Construct(maps, x, AnyMap(t, <<>>)), NoSnap,
                Call("AnyMap(MapType)", x, t, "ok", NONE))

OwnCopyConstruct ==
    /\ last.b = "ok"
    /\ \E x \in OObjs \ maps.alive, o \in maps.alive :
        IF Live(maps, o)
        THEN \E clone \in Clones(Deref(maps, o)) :
                OwnStep(CopyConstruct(maps, x, o, clone), Take(maps, x, o),
                        Call("AnyMap(AnyMap const&)", x, o, "ok", NONE))
        ELSE OwnUndefined(Call("AnyMap(AnyMap const&)", x, o, "ok", NONE))

OwnMoveConstruct ==
    /\ last.b = "ok"
    /\ \E x \in OObjs \ maps.alive, o \in maps.alive :
        OwnStep(MoveConstruct(maps, x, o), NoSnap,
                Call("AnyMap(AnyMap&&)", x, o, "ok", NONE))

OwnDestruct ==
    /\ last.b = "ok"
    /\ \E x \in maps.alive :
        OwnStep(Destruct(maps, x), NoSnap,
                Call("~AnyMap", x, NONE, "ok", NONE))

OwnCopyAssign ==
    /\ last.b = "ok"
    /\ \E x \in maps.alive, o \in maps.alive :
        IF x = o
        THEN OwnStep(maps, maps.snap, Call("operator=", x, o, "ok", NONE))
        ELSE IF Live(maps, o)
        THEN \E clone \in Clones(Deref(maps, o)) :
                OwnStep(CopyAssign(maps, x, o, clone), Take(maps, x, o),
                        Call("operator=", x, o, "ok", NONE))
        ELSE OwnUndefined(Call("operator=", x, o, "ok", NONE))

OwnMoveAssign ==
    /\ last.b = "ok"
    /\ \E x \in maps.alive : \E o \in maps.alive \ {x} :
        OwnStep(MoveAssign(maps, x, o), NoSnap,
                Call("operator=(AnyMap&&)", x, o, "ok", NONE))

OwnSwap ==
    /\ last.b = "ok"
    /\ \E x \in maps.alive : \E o \in maps.alive \ {x} :
        OwnStep(SwapPointers(maps, x, o), NoSnap,
                Call("swap", x, o, "ok", NONE))

\* x[k] = 1.0
OwnIndexAssign ==
    /\ last.b = "ok"
    /\ \E x \in maps.alive, k \in Keys :
        \E pos \in InsertPositions(Container(maps, x), k) :
          LET m == MapIndex(Container(maps, x), k, Zero, pos)
          IN  OwnForward(x, MapAssign(m, MapFind(m, k), One), Touch(maps, x),
                         Call("operator[]", x, k, "ok", NONE))

\* x.insert(value_type(k, 1.0))
OwnInsert ==
    /\ last.b = "ok"
    /\ \E x \in maps.alive, k \in Keys :
        \E pos \in InsertPositions(Container(maps, x), k) :
          OwnForward(x, MapInsert(Container(maps, x), k, One, pos),
                     Touch(maps, x),
                     Call("insert", x, k, "ok",
                          MapFind(Container(maps, x), k) = 0))

OwnErase ==
    /\ last.b = "ok"
    /\ \E x \in maps.alive, k \in Keys :
        OwnForward(x, MapErase(Container(maps, x), k), Touch(maps, x),
                   Call("erase", x, k, "ok", MapCount(Container(maps, x), k)))

OwnClear ==
    /\ last.b = "ok"
    /\ \E x \in maps.alive :
        OwnForward(x, MapClear(Container(maps, x)), Touch(maps, x),
                   Call("clear", x, NONE, "ok", NONE))

OwnSize ==
    /\ last.b = "ok"
    /\ \E x \in maps.alive :
        OwnForward(x, Container(maps, x), maps.snap,
                   Call("size", x, NONE, "ok", MapSize(Container(maps, x))))

OwnEmpty ==
    /\ last.b = "ok"
    /\ \E x \in maps.alive :
        OwnForward(x, Container(maps, x), maps.snap,
                   Call("empty", x, NONE, "ok", MapEmpty(Container(maps, x))))

OwnFind ==
    /\ last.b = "ok"
    /\ \E x \in maps.alive, k \in Keys :
        OwnForward(x, Container(maps, x), maps.snap,
                   Call("find", x, k, "ok", MapFind(Container(maps, x), k)))

NextOwnership ==
    \/ OwnConstruct
    \/ OwnCopyConstruct
    \/ OwnMoveConstruct
    \/ OwnDestruct
    \/ OwnCopyAssign
    \/ OwnMoveAssign
    \/ OwnSwap
    \/ OwnIndexAssign
    \/ OwnInsert
    \/ OwnErase
    \/ OwnClear
    \/ OwnSize
    \/ OwnEmpty
    \/ OwnFind

SpecAnyMapOwnership == InitOwnership /\ [][NextOwnership]_vars

-----------------------------------------------------------------------------
(* Specification of CounterMap factory ownership: two CounterMap objects, m
   and rhs, that are constructed from the caller's factory, copied, moved,
   assigned, swapped and destroyed. The variable cmap holds the store *)

\* the address of the factory object the caller passes to the constructor
CallerFactory == 1

InitFactoryOwnership ==
    /\ \E f \in Factories :
         LET empty == [fac   |-> [x \in MObjs |-> Null],
                       heap  |-> [a \in FactoryAddrs |->
                                     IF a = CallerFactory THEN f ELSE NoFactory],
                       alive |-> {}]
         IN  cmap = ConstructWithFactory(
                        ConstructWithFactory(empty, "m", CallerFactory),
                        "rhs", CallerFactory)
    /\ cache = Idle /\ counters = Idle /\ maps = Idle
    /\ last = Call("CounterMap", NONE, NONE, "ok", NONE)
    /\ nops = 0

\* one call that leaves the store as s
FactoryStep(s, call) ==
    /\ cmap' = s
    /\ last' = call
    /\ nops' = nops + 1
    /\ UNCHANGED <<cache, counters, maps>>

\* a call that dereferences a null counterFactory_: the run ends there
FactoryUndefined(call) ==
    \E u \in Undefined :
        /\ last' = [call EXCEPT !.b = u]
        /\ nops' = nops + 1
        /\ UNCHANGED <<cache, counters, cmap, maps>>

FacConstruct ==
    /\ nops < MaxMapOps /\ last.b = "ok"
    /\ \E x \in MObjs \ cmap.alive :
        FactoryStep(ConstructWithFactory(cmap, x, CallerFactory),
                    Call("CounterMap(coreMap, factory)", x, NONE, "ok", NONE))

FacCopyConstruct ==
    /\ nops < MaxMapOps /\ last.b = "ok"
    /\ \E x \in MObjs \ cmap.alive, o \in cmap.alive :
        LET call == Call("CounterMap(CounterMap const&)", x, o, "ok", NONE)
        IN  IF cmap.fac[o] = Null
            THEN FactoryUndefined(call)
            ELSE FactoryStep(CopyConstructMap(cmap, x, o), call)

FacMoveConstruct ==
    /\ nops < MaxMapOps /\ last.b = "ok"
    /\ \E x \in MObjs \ cmap.alive, o \in cmap.alive :
        FactoryStep(MoveConstructMap(cmap, x, o),
                    Call("CounterMap(CounterMap&&)", x, o, "ok", NONE))

FacDestruct ==
    /\ nops < MaxMapOps /\ last.b = "ok"
    /\ \E x \in cmap.alive :
        FactoryStep(DestructMap(cmap, x),
                    Call("~CounterMap", x, NONE, "ok", NONE))

FacCopyAssign ==
    /\ nops < MaxMapOps /\ last.b = "ok"
    /\ \E x \in cmap.alive, o \in cmap.alive :
        LET call == Call("operator=(CounterMap const&)", x, o, "ok", NONE)
        IN  IF cmap.fac[o] = Null
            THEN FactoryUndefined(call)
            ELSE FactoryStep(CopyAssignMap(cmap, x, o), call)

FacMoveAssign ==
    /\ nops < MaxMapOps /\ last.b = "ok"
    /\ \E x \in cmap.alive : \E o \in cmap.alive \ {x} :
        FactoryStep(MoveAssignMap(cmap, x, o),
                    Call("operator=(CounterMap&&)", x, o, "ok", NONE))

FacSwap ==
    /\ nops < MaxMapOps /\ last.b = "ok"
    /\ \E x \in cmap.alive : \E o \in cmap.alive \ {x} :
        FactoryStep(SwapMap(cmap, x, o), Call("swap", x, o, "ok", NONE))

NextFactoryOwnership ==
    \/ FacConstruct
    \/ FacCopyConstruct
    \/ FacMoveConstruct
    \/ FacDestruct
    \/ FacCopyAssign
    \/ FacMoveAssign
    \/ FacSwap

SpecFactoryOwnership == InitFactoryOwnership /\ [][NextFactoryOwnership]_vars

-----------------------------------------------------------------------------
(* Specification of CounterMap copies: m is constructed from a core map that
   holds nested counters; c is default-constructed or copy-constructed from
   m, can be assigned m, and takes the modifiers. The variable cmap holds
   the store *)

CopyObjs == {"m", "c"}

\* core maps a caller can build before handing them to CounterMap(CoreMap_t)
CopiedCoreMaps ==
    {AnyMap(ORDERED,
            <<(<<1, CounterFromMap(AnyMap(ORDERED, <<(<<1, One>>)>>))>>)>>),
     AnyMap(UNORDERED,
            <<(<<2, CounterFromMap(AnyMap(UNORDERED, <<(<<2, One>>)>>))>>),
              (<<1, CounterDefault>>)>>)}

InitCounterMapCopy ==
    /\ \E cm \in CopiedCoreMaps, f \in Factories :
         LET empty == [obj   |-> [x \in CopyObjs |->
                                     CounterMap(AnyMapDefault,
                                                DefaultCounterFactory)],
                       heap  |-> [a \in CellAddrs |-> FreeCell],
                       alive |-> {}]
         IN  cmap = StoreMap(empty, "m", CounterMap(cm, f), {})
    /\ cache = Idle /\ counters = Idle /\ maps = Idle
    /\ last = Call("CounterMap", "m", NONE, NONE, NONE)
    /\ nops = 0

\* one call leaving the store as s
CopyStep(s, call) ==
    /\ CounterMapInBounds(LoadMap(s, "c"))
    /\ cmap' = s
    /\ last' = call
    /\ nops' = nops + 1
    /\ UNCHANGED <<cache, counters, maps>>

\* CounterMap c;
CpDefaultConstruct ==
    /\ nops < MaxMapOps /\ "c" \notin cmap.alive
    /\ CopyStep(StoreMap(cmap, "c",
                         CounterMap(AnyMapDefault, DefaultCounterFactory), {}),
                Call("CounterMap()", "c", NONE, NONE, NONE))

\* CounterMap c(m);
CpCopyConstruct ==
    /\ nops < MaxMapOps /\ "c" \notin cmap.alive
    /\ CopyStep(CopyMapCells(cmap, "c", "m"),
                Call("CounterMap(CounterMap const&)", "c", "m", NONE, NONE))

\* c = m;
CpCopyAssign ==
    /\ nops < MaxMapOps /\ "c" \in cmap.alive
    /\ CopyStep(CopyMapCells(cmap, "c", "m"),
                Call("operator=", "c", "m", NONE, NONE))

CpIncrementCount ==
    /\ nops < MaxMapOps /\ "c" \in cmap.alive
    /\ LET c == LoadMap(cmap, "c")
       IN  \E key \in Keys, val \in Vals, count \in Amounts :
             \E kpos \in InsertPositions(c.coreMap_, key) :
               \E vpos \in InsertPositions(
                      GetCounter(EnsureCounter(c, key, kpos), key).coreMap_,
                      val) :
                 CopyStep(UpdateMap(cmap, "c",
                              CounterMapIncrementCount(c, key, val, count,
                                                       kpos, vpos)),
                          Call("incrementCount", "c", <<key, val>>, count, NONE))

CpSetCount ==
    /\ nops < MaxMapOps /\ "c" \in cmap.alive
    /\ LET c == LoadMap(cmap, "c")
       IN  \E key \in Keys, val \in Vals, count \in Amounts :
             \E kpos \in InsertPositions(c.coreMap_, key) :
               \E vpos \in InsertPositions(
                      GetCounter(EnsureCounter(c, key, kpos), key).coreMap_,
                      val) :
                 CopyStep(UpdateMap(cmap, "c",
                              CounterMapSetCount(c, key, val, count,
                                                 kpos, vpos)),
                          Call("setCount", "c", <<key, val>>, count, NONE))

CpRemoveKey ==
    /\ nops < MaxMapOps /\ "c" \in cmap.alive
    /\ \E key \in Keys :
         CopyStep(UpdateMap(cmap, "c",
                      CounterMapRemoveKey(LoadMap(cmap, "c"), key)),
                  Call("remove(key)", "c", key, NONE, NONE))

CpRemove ==
    /\ nops < MaxMapOps /\ "c" \in cmap.alive
    /\ \E key \in Keys, val \in Vals :
         CopyStep(UpdateMap(cmap, "c",
                      CounterMapRemove(LoadMap(cmap, "c"), key, val)),
                  Call("remove(key,val)", "c", <<key, val>>, NONE, NONE))

CpConditionalNormalize ==
    /\ nops < MaxMapOps /\ "c" \in cmap.alive
    /\ CopyStep(UpdateMap(cmap, "c",
                    ConditionalNormalize(LoadMap(cmap, "c"))),
                Call("conditionalNormalize", "c", NONE, NONE, NONE))

\* c += y, y being m or c itself
CpPlusMap ==
    /\ nops < MaxMapOps /\ "c" \in cmap.alive
    /\ \E y \in CopyObjs :
         \E v \in CounterMapAddMap(LoadMap(cmap, "c"), LoadMap(cmap, y),
                                   y = "c") :
           CopyStep(UpdateMap(cmap, "c", v), Call("+=", "c", y, NONE, NONE))

NextCounterMapCopy ==
    \/ CpDefaultConstruct
    \/ CpCopyConstruct
    \/ CpCopyAssign
    \/ CpIncrementCount
    \/ CpSetCount
    \/ CpRemoveKey
    \/ CpRemove
    \/ CpConditionalNormalize
    \/ CpPlusMap

SpecCounterMapCopy == InitCounterMapCopy /\ [][NextCounterMapCopy]_vars

-----------------------------------------------------------------------------
(* Specification of Counter cache ownership: the counter o is constructed
   empty or from a map; c and o are then copied, moved, assigned, swapped,
   destroyed and used. The variable counters holds the store; a call through
   a null cachedTotal_ has an undefined outcome and ends the run *)

InitCounterOwnership ==
    /\ \E k \in {CounterDefault} \cup {CounterFromMap(m) : m \in PrebuiltMaps} :
         LET empty == [map   |-> [x \in CObjs |-> AnyMapDefault],
                       ptr   |-> [x \in CObjs |-> Null],
                       heap  |-> [a \in CacheAddrs |-> NoCache],
                       alive |-> {}]
         IN  counters = ConstructCounter(empty, "o", k)
    /\ cache = Idle /\ cmap = Idle /\ maps = Idle
    /\ last = Call("Counter", "o", NONE, "ok", NONE)
    /\ nops = 0

\* one call leaving the store as s
OwnershipStep(s, call) ==
    /\ counters' = s
    /\ last' = call
    /\ nops' = nops + 1
    /\ UNCHANGED <<cache, cmap, maps>>

\* a call that dereferences a null cachedTotal_: the run ends there
CacheUndefined(call) ==
    \E u \in Undefined :
        /\ last' = [call EXCEPT !.b = u]
        /\ nops' = nops + 1
        /\ UNCHANGED <<cache, counters, cmap, maps>>

MvConstruct ==
    /\ nops < MaxOps /\ last.b = "ok"
    /\ \E x \in CObjs \ counters.alive :
        OwnershipStep(ConstructCounter(counters, x, CounterDefault),
                      Call("Counter()", x, NONE, "ok", NONE))

\* Counter(Counter const& other): new CountCache(*other.cachedTotal_)
MvCopyConstruct ==
    /\ nops < MaxOps /\ last.b = "ok"
    /\ \E x \in CObjs \ counters.alive, o \in counters.alive :
        LET call == Call("Counter(Counter const&)", x, o, "ok", NONE)
        IN  IF counters.ptr[o] = Null
            THEN CacheUndefined(call)
            ELSE OwnershipStep(
                     ConstructCounter(counters, x,
                                      CounterCopy(LoadCounter(counters, o))),
                     call)

MvMoveConstruct ==
    /\ nops < MaxOps /\ last.b = "ok"
    /\ \E x \in CObjs \ counters.alive, o \in counters.alive :
        OwnershipStep(MoveConstructCounter(counters, x, o),
                      Call("Counter(Counter&&)", x, o, "ok", NONE))

MvDestruct ==
    /\ nops < MaxOps /\ last.b = "ok"
    /\ \E x \in counters.alive :
        OwnershipStep(DestructCounter(counters, x),
                      Call("~Counter", x, NONE, "ok", NONE))

\* operator=(Counter const& rhs): nothing when this == &rhs, otherwise
\* coreMap_ = rhs.coreMap_; *cachedTotal_ = *rhs.cachedTotal_
MvCopyAssign ==
    /\ nops < MaxOps /\ last.b = "ok"
    /\ \E x \in counters.alive, o \in counters.alive :
        LET call == Call("operator=(Counter const&)", x, o, "ok", NONE)
        IN  IF x = o THEN OwnershipStep(counters, call)
            ELSE IF counters.ptr[x] = Null \/ counters.ptr[o] = Null
            THEN CacheUndefined(call)
            ELSE OwnershipStep(
                     StoreCounter(counters, x,
                                  CounterCopy(LoadCounter(counters, o))),
                     call)

MvMoveAssign ==
    /\ nops < MaxOps /\ last.b = "ok"
    /\ \E x \in counters.alive : \E o \in counters.alive \ {x} :
        OwnershipStep(MoveAssignCounter(counters, x, o),
                      Call("operator=(Counter&&)", x, o, "ok", NONE))

MvSwap ==
    /\ nops < MaxOps /\ last.b = "ok"
    /\ \E x \in counters.alive : \E o \in counters.alive \ {x} :
        OwnershipStep(SwapCounter(counters, x, o),
                      Call("swap", x, o, "ok", NONE))

\* incrementCount(val, count): coreMap_[val] += count; *cachedTotal_ += count
MvIncrementCount ==
    /\ nops < MaxOps /\ last.b = "ok"
    /\ \E x \in counters.alive, val \in Vals, count \in Amounts :
        LET call == Call("incrementCount", x, val, "ok", NONE)
        IN  IF counters.ptr[x] = Null
            THEN CacheUndefined(call)
            ELSE \E pos \in InsertPositions(counters.map[x], val) :
                   LET c == IncrementCount(LoadCounter(counters, x),
                                           val, count, pos)
                   IN  /\ CounterInBounds(c)
                       /\ OwnershipStep(StoreCounter(counters, x, c), call)

\* totalCount(): cachedTotal_->isSynched() first
MvTotalCount ==
    /\ nops < MaxOps /\ last.b = "ok"
    /\ \E x \in counters.alive :
        LET call == Call("totalCount", x, NONE, "ok", NONE)
        IN  IF counters.ptr[x] = Null
            THEN CacheUndefined(call)
            ELSE OwnershipStep(
                     StoreCounter(counters, x,
                                  TotalCountSync(LoadCounter(counters, x))),
                     [call EXCEPT !.ret =
                          TotalCount(LoadCounter(counters, x))])

NextCounterOwnership ==
    \/ MvConstruct
    \/ MvCopyConstruct
    \/ MvMoveConstruct
    \/ MvDestruct
    \/ MvCopyAssign
    \/ MvMoveAssign
    \/ MvSwap
    \/ MvIncrementCount
    \/ MvTotalCount

SpecCounterOwnership == InitCounterOwnership /\ [][NextCounterOwnership]_vars

-----------------------------------------------------------------------------
(* Properties of NumCache *)

\* C6: get() never returns stale data: it returns the stored value when the
\* cache is synchronized and the zero of the numeric type when it is not,
\* after any sequence of set, reset, setCachePolicy and compound assignments.
C6_GetNeverStale ==
    last.op = "get" =>
        last.ret = (IF cache.synched_ THEN cache.value_ ELSE Zero)

\* a get() on an unsynchronized cache that still stores a nonzero value
C6_Witness ==
    /\ last.op = "get"
    /\ ~cache.synched_
    /\ cache.value_ # Zero
    /\ last.ret = Zero

\* the value a compound assignment must leave under the persistent policy
CompoundResult(op, value, n) ==
    CASE op = "+=" -> Add(value, n)
      [] op = "-=" -> Sub(value, n)
      [] op = "*=" -> Mul(value, n)
      [] op = "/=" -> Div(value, n)

\* C7: a compound assignment by n applies the operation to the stored value
\* and leaves the flag as it was (a synchronized cache remains synchronized)
\* under PERSISTENT; under RELAXED it leaves the cache unsynchronized and
\* the stored value untouched. The policy itself never changes.
C7_CompoundAssignment ==
    [][last'.op \in {"+=", "-=", "*=", "/="} =>
          /\ cache'.cachePolicy_ = cache.cachePolicy_
          /\ cache.cachePolicy_ = PERSISTENT =>
                /\ cache'.value_ = CompoundResult(last'.op, cache.value_, last'.a)
                /\ cache'.synched_ = cache.synched_
          /\ cache.cachePolicy_ = RELAXED =>
                /\ ~cache'.synched_
                /\ cache'.value_ = cache.value_]_vars

\* a persistent, synchronized cache that a -= has just taken from 0 to -1/2
C7_Witness ==
    /\ last.op = "-="
    /\ last.a = Frac(1, 2)
    /\ cache.cachePolicy_ = PERSISTENT
    /\ cache.synched_
    /\ cache.value_ = Frac(-1, 2)

-----------------------------------------------------------------------------
(* Properties of Counter *)

\* the exact sum of the counts stored in a map
RECURSIVE SumOfCounts(_)
SumOfCounts(entries) ==
    IF entries = <<>> THEN Zero
    ELSE Add(Head(entries)[2], SumOfCounts(Tail(entries)))

Cached(x)  == counters[x].cachedTotal_
Stored(x)  == counters[x].coreMap_.entries

\* C1: in every state a Counter reaches, a cache that reports synchronized
\* holds the exact sum of all stored counts.
C1_SynchedCacheIsSum ==
    \A x \in CObjs :
        Cached(x).synched_ => Cached(x).value_ = SumOfCounts(Stored(x))

\* a persistent cache kept synchronized through a removal, with counts left
C1_Witness ==
    /\ last.op = "remove"
    /\ Cached("c").cachePolicy_ = PERSISTENT
    /\ Cached("c").synched_
    /\ Len(Stored("c")) = 1
    /\ Cached("c").value_ # Zero

\* C4 as stated: under RELAXED the cache is unsynchronized exactly when the
\* most recent call was incrementCount, setCount or remove, and synchronized
\* at the exact sum when it was totalCount.
C4_Original ==
    \A x \in CObjs :
        (last.obj = x /\ Cached(x).cachePolicy_ = RELAXED) =>
            /\ last.op \in {"incrementCount", "setCount", "remove"} =>
                  ~Cached(x).synched_
            /\ last.op = "totalCount" =>
                  /\ Cached(x).synched_
                  /\ Cached(x).value_ = SumOfCounts(Stored(x))

\* C4 amended: under RELAXED an incrementCount, a setCount and a remove of a
\* stored value leave the cache unsynchronized; a remove of a value that is
\* not stored leaves the counter, cache flag included, as it was; after
\* totalCount() the cache is synchronized at the exact sum, which is the
\* value returned, under either policy.
C4_RelaxedCache ==
    [][\A x \in CObjs : last'.obj = x =>
          /\ (/\ last'.op \in {"incrementCount", "setCount"}
              /\ Cached(x).cachePolicy_ = RELAXED) =>
                ~counters'[x].cachedTotal_.synched_
          /\ (last'.op = "remove" /\ Cached(x).cachePolicy_ = RELAXED) =>
                IF \E i \in DOMAIN Stored(x) : Stored(x)[i][1] = last'.a
                THEN ~counters'[x].cachedTotal_.synched_
                ELSE counters'[x] = counters[x]
          /\ last'.op = "totalCount" =>
                /\ counters'[x].cachedTotal_.synched_
                /\ counters'[x].cachedTotal_.value_ = SumOfCounts(Stored(x))
                /\ last'.ret = SumOfCounts(Stored(x))
                /\ counters'[x].coreMap_ = counters[x].coreMap_]_vars

\* a relaxed cache still synchronized after a remove of an absent value
C4_Witness ==
    /\ last.op = "remove"
    /\ \A i \in DOMAIN Stored("c") : Stored("c")[i][1] # last.a
    /\ Len(Stored("c")) = 1
    /\ Cached("c").cachePolicy_ = RELAXED
    /\ Cached("c").synched_

\* C5: under PERSISTENT a cache synchronized at sum S stays synchronized
\* through incrementCount, setCount and remove; after incrementCount(v, d)
\* the cached total, which the next totalCount() returns as it is, is
\* exactly S + d.
C5_PersistentCache ==
    [][\A x \in CObjs :
          (/\ last'.obj = x
           /\ Cached(x).cachePolicy_ = PERSISTENT
           /\ Cached(x).synched_) =>
             /\ last'.op \in {"incrementCount", "setCount", "remove"} =>
                   /\ counters'[x].cachedTotal_.synched_
                   /\ counters'[x].cachedTotal_.cachePolicy_ = PERSISTENT
             /\ last'.op = "incrementCount" =>
                   /\ counters'[x].cachedTotal_.value_ =
                          Add(SumOfCounts(Stored(x)), last'.b)
                   /\ TotalCount(counters'[x]) =
                          Add(SumOfCounts(Stored(x)), last'.b)
             /\ last'.op = "totalCount" =>
                   /\ last'.ret = Cached(x).value_
                   /\ counters'[x] = counters[x]]_vars

\* a persistent cache synchronized at a nonzero sum right after an
\* incrementCount on a counter that already held a value
C5_Witness ==
    /\ last.op = "incrementCount"
    /\ Cached("c").cachePolicy_ = PERSISTENT
    /\ Cached("c").synched_
    /\ Len(Stored("c")) = 2
    /\ Cached("c").value_ = FromInt(2)

\* C8: setCachePolicy changes the policy and nothing else: the flag, the
\* stored value and the key-count contents are as before, and the other
\* counter is untouched; getCachePolicy changes nothing.
C8_SetCachePolicyFrame ==
    [][/\ last'.op = "setCachePolicy" =>
            /\ counters'[last'.obj].cachedTotal_.cachePolicy_ = last'.a
            /\ counters'[last'.obj].cachedTotal_.synched_ =
                   Cached(last'.obj).synched_
            /\ counters'[last'.obj].cachedTotal_.value_ =
                   Cached(last'.obj).value_
            /\ counters'[last'.obj].coreMap_ = counters[last'.obj].coreMap_
            /\ \A y \in CObjs \ {last'.obj} : counters'[y] = counters[y]
       /\ last'.op = "getCachePolicy" =>
            /\ counters' = counters
            /\ last'.ret = Cached(last'.obj).cachePolicy_]_vars

\* a synchronized, non-empty counter just switched to the persistent policy
C8_Witness ==
    /\ last.op = "setCachePolicy"
    /\ last.a = PERSISTENT
    /\ Cached("c").cachePolicy_ = PERSISTENT
    /\ Cached("c").synched_
    /\ Len(Stored("c")) = 2
    /\ Cached("c").value_ = FromInt(2)

-----------------------------------------------------------------------------
(* Properties of CounterMap *)

\* the sum of totalCount() over every nested counter
RECURSIVE SumOfNestedTotals(_)
SumOfNestedTotals(entries) ==
    IF entries = <<>> THEN Zero
    ELSE Add(TotalCount(Head(entries)[2]), SumOfNestedTotals(Tail(entries)))

\* the sum of every count stored in the nested counters
RECURSIVE SumOfAllCounts(_)
SumOfAllCounts(entries) ==
    IF entries = <<>> THEN Zero
    ELSE Add(SumOfCounts(Head(entries)[2].coreMap_.entries),
             SumOfAllCounts(Tail(entries)))

\* C2: in every state a CounterMap reaches through incrementCount, setCount,
\* remove(key), remove(key, value), conditionalNormalize and totalCount, a
\* synchronized grand-total cache holds the sum of totalCount() over every
\* nested counter, and totalCount() returns the true grand total.
C2_GrandTotalCache ==
    \A x \in MObjs :
        /\ cmap[x].cachedTotal_.synched_ =>
              cmap[x].cachedTotal_.value_ =
                  SumOfNestedTotals(cmap[x].coreMap_.entries)
        /\ (last.op = "totalCount" /\ last.obj = x) =>
              last.ret = SumOfAllCounts(cmap[x].coreMap_.entries)

\* C3: after m += rhs or m -= rhs on a map whose grand-total cache was
\* unsynchronized or held the true total (as it does right after
\* totalCount()), totalCount() returns the sum of all counts now stored.
C3_TotalAfterMapArithmetic ==
    [][\A x \in MObjs :
          (/\ last'.op \in {"+=", "-="}
           /\ last'.obj = x
           /\ cmap[x].cachedTotal_.synched_ =>
                 cmap[x].cachedTotal_.value_ =
                     SumOfAllCounts(cmap[x].coreMap_.entries)) =>
             CounterMapTotalCount(cmap'[x]) =
                 SumOfAllCounts(cmap'[x].coreMap_.entries)]_vars

-----------------------------------------------------------------------------
(* Properties of AnyMap *)

\* the (key, value) pairs a map holds, whatever its traversal order
Pairs(m) == {m.entries[i] : i \in DOMAIN m.entries}

\* equal size and every pair of x found in y with an equal value
SameContents(x, y) ==
    /\ Cardinality(Pairs(maps[x])) = Cardinality(Pairs(maps[y]))
    /\ \A p \in Pairs(maps[x]) :
           \E q \in Pairs(maps[y]) : q[1] = p[1] /\ q[2] = p[2]

\* C9: a == b is true exactly when the two maps have equal size and every
\* (key, value) pair of a is found in b with an equal value, whatever the
\* wrapped container types and traversal orders; a != b is its negation.
C9_EqualityIsSameContents ==
    /\ last.op = "==" => (last.ret <=> SameContents(last.obj, last.a))
    /\ last.op = "!=" => (last.ret <=> ~SameContents(last.obj, last.a))

\* a sorted map and a hash map holding the same two pairs in opposite
\* traversal orders have just compared equal
C9_Witness ==
    /\ last.op = "=="
    /\ last.obj = "a" /\ last.a = "b"
    /\ last.ret = TRUE
    /\ maps["a"].type = ORDERED /\ maps["b"].type = UNORDERED
    /\ maps["a"].entries = <<(<<1, One>>), (<<2, Zero>>)>>
    /\ maps["b"].entries = <<(<<2, Zero>>), (<<1, One>>)>>

\* C10: the result of equality is symmetric: (a == b) and (b == a) have the
\* same truth value for any two maps, whatever containers they wrap.
C10_EqualitySymmetric ==
    \A x \in AObjs, y \in AObjs :
        MapEquals(maps[x], maps[y], x = y) = MapEquals(maps[y], maps[x], x = y)

\* a hash map holding one pair has just compared unequal to a sorted map
\* holding that pair and one more
C10_Witness ==
    /\ last.op = "=="
    /\ last.obj = "b" /\ last.a = "a"
    /\ last.ret = FALSE
    /\ maps["a"].type = ORDERED /\ maps["b"].type = UNORDERED
    /\ maps["a"].entries = <<(<<1, One>>), (<<2, One>>)>>
    /\ maps["b"].entries = <<(<<2, One>>)>>

-----------------------------------------------------------------------------
(* Properties of AnyMap ownership *)

\* C11: a copy is an independent deep copy: after x is copy-constructed or
\* copy-assigned from o, whatever operator[], insert, erase and clear calls
\* are made on one of the two, the other still holds the contents that were
\* copied.
C11_CopyIsIndependent ==
    maps.snap # NoSnap =>
        \A z \in {maps.snap.src, maps.snap.dst} \ maps.snap.touched :
            /\ Live(maps, z)
            /\ Contents(Deref(maps, z)) = maps.snap.pairs

\* w2 was copied from a w1 holding two pairs and has since been cleared,
\* and w1 still holds them
C11_Witness ==
    /\ last.op = "clear"
    /\ last.obj = "w2"
    /\ maps.snap.src = "w1" /\ maps.snap.dst = "w2"
    /\ maps.snap.touched = {"w2"}
    /\ Cardinality(maps.snap.pairs) = 2
    /\ Contents(Deref(maps, "w1")) = maps.snap.pairs
    /\ Contents(Deref(maps, "w2")) = {}

\* C12: after an AnyMap is move-constructed from a source, the source still
\* holds a backing container and is empty, and no call on a constructed
\* object has an undefined outcome.
C12_MovedFromIsValid ==
    /\ last.op = "AnyMap(AnyMap&&)" =>
          /\ Live(maps, last.a)
          /\ MapEmpty(Deref(maps, last.a))
    /\ last.b = "ok"

-----------------------------------------------------------------------------
(* Properties of AnyMap insertion and erasure *)

\* the elements of a range that an insertion into container m adds: those
\* whose key m does not hold and no earlier element of the range has
Added(m, range) ==
    {range[i] : i \in {j \in DOMAIN range :
                          /\ MapFind(m, range[j][1]) = 0
                          /\ \A h \in 1..(j - 1) : range[h][1] # range[j][1]}}

\* C13: insert never overwrites. An insert of a key that is absent adds the
\* pair and returns (position, true); an insert of a key that is present
\* leaves the container as it was and returns (existing position, false);
\* a range insert applies the same rule to each element in turn.
C13_InsertNeverOverwrites ==
    [][/\ last'.op = "insert" =>
            IF MapFind(maps.w, last'.a) = 0
            THEN /\ Contents(maps'.w) =
                        Contents(maps.w) \cup {<<last'.a, last'.b>>}
                 /\ MapSize(maps'.w) = MapSize(maps.w) + 1
                 /\ last'.ret = <<MapFind(maps'.w, last'.a), TRUE>>
            ELSE /\ maps'.w = maps.w
                 /\ last'.ret = <<MapFind(maps.w, last'.a), FALSE>>
       /\ last'.op = "insert(range)" =>
            /\ Contents(maps'.w) =
                   Contents(maps.w) \cup Added(maps.w, maps.range)
            /\ MapSize(maps'.w) = Cardinality(Contents(maps'.w))]_vars

\* a range insertion that found one of its keys present with another value
\* and left that value alone
C13_Witness ==
    /\ last.op = "insert(range)"
    /\ <<1, Zero>> \in Contents(maps.before)
    /\ maps.range = <<(<<1, One>>), (<<2, One>>), (<<2, Zero>>)>>
    /\ Contents(maps.w) = {<<1, Zero>>, <<2, One>>}

\* C16: each erase of a present key returns 1 and removes that key only,
\* each erase of an absent key returns 0 and changes nothing, and once a
\* range inserted into an empty map has had erase(xi) called for each of
\* its elements the map is empty again, with size() = 0.
C16_InsertEraseRoundTrip ==
    [][last'.op = "erase" =>
          /\ IF MapFind(maps.w, last'.a) # 0
             THEN /\ last'.ret = 1
                  /\ Contents(maps'.w) =
                         {p \in Contents(maps.w) : p[1] # last'.a}
                  /\ MapSize(maps'.w) = MapSize(maps.w) - 1
             ELSE /\ last'.ret = 0
                  /\ maps'.w = maps.w
          /\ (nops' = Len(maps.range) + 1 /\ MapEmpty(maps.before)) =>
                /\ MapSize(maps'.w) = 0
                /\ MapEmpty(maps'.w)]_vars

\* a range of three elements over two keys was inserted into an empty hash
\* map and every element erased: the last erase found its key gone
C16_Witness ==
    /\ last.op = "erase"
    /\ last.ret = 0
    /\ Len(maps.range) = 3
    /\ nops = 4
    /\ maps.w.type = UNORDERED
    /\ MapEmpty(maps.before)
    /\ MapEmpty(maps.w)

\* C14: at(key), const or not, throws out_of_range when the key is absent
\* and returns the stored value when it is present; either way the map is
\* left as it was, so no key is created.
C14_AtThrowsWhenAbsent ==
    [][last'.op \in {"at", "at const"} =>
          /\ maps' = maps
          /\ IF MapFind(maps[last'.obj], last'.a) = 0
             THEN last'.b = TRUE
             ELSE /\ last'.b = FALSE
                  /\ <<last'.a, last'.ret>> \in Contents(maps[last'.obj])]_vars

\* at() of an absent key has just thrown on a map that holds the other key
C14_Witness ==
    /\ last.op = "at const"
    /\ last.b = TRUE
    /\ last.obj = "a"
    /\ last.a = 2
    /\ Contents(maps["a"]) = {<<1, One>>}

\* C15: operator[](key) on an absent key inserts the key with the default
\* value, size() growing by exactly one; on a present key it returns the
\* stored value and changes neither the size nor any value.
C15_IndexInsertsDefault ==
    [][last'.op = "[]" =>
          IF MapFind(maps[last'.obj], last'.a) = 0
          THEN /\ Contents(maps'[last'.obj]) =
                      Contents(maps[last'.obj]) \cup {<<last'.a, Zero>>}
               /\ MapSize(maps'[last'.obj]) = MapSize(maps[last'.obj]) + 1
               /\ last'.ret = Zero
               /\ \A y \in AObjs \ {last'.obj} : maps'[y] = maps[y]
          ELSE /\ maps' = maps
               /\ <<last'.a, last'.ret>> \in Contents(maps[last'.obj])]_vars

\* operator[] of an absent key has just grown a sorted map to two entries
C15_Witness ==
    /\ last.op = "[]"
    /\ last.obj = "a"
    /\ last.a = 1
    /\ last.ret = Zero
    /\ maps["a"].entries = <<(<<1, Zero>>), (<<2, One>>)>>

-----------------------------------------------------------------------------
(* Properties of the Counter queries *)

\* the values a counter stores, and the count stored for a value that is there
StoredValues(x) == {Stored(x)[i][1] : i \in 1..Len(Stored(x))}
StoredCount(x, val) ==
    Stored(x)[CHOOSE i \in 1..Len(Stored(x)) : Stored(x)[i][1] = val][2]

\* C17: getCount(v) and contains(v) always return (0 and false for a value
\* that is not stored, the stored count and true for one that is), and they
\* leave the contents of every counter, the looked-up one included, exactly
\* as they were: no entry is inserted, size and key set are unchanged.
C17_LookupsAreTotalAndReadOnly ==
    [][/\ last'.op = "getCount" =>
            /\ counters' = counters
            /\ last'.ret = IF last'.a \in StoredValues(last'.obj)
                           THEN StoredCount(last'.obj, last'.a)
                           ELSE Zero
       /\ last'.op = "contains" =>
            /\ counters' = counters
            /\ last'.ret = (last'.a \in StoredValues(last'.obj))]_vars

\* getCount has just answered 0 for a value missing from a non-empty counter
C17_Witness ==
    /\ last.op = "getCount"
    /\ Stored(last.obj) # <<>>
    /\ last.a \notin StoredValues(last.obj)
    /\ last.ret = Zero

\* C18: normalize() keeps the values and their order; when the total of the
\* counts was zero (an empty counter included) every count becomes 0 and the
\* cache is synchronized at 0, otherwise every count becomes its previous
\* value divided by the previous total and the cache is synchronized at 1.
C18_Normalize ==
    [][last'.op = "normalize" =>
        LET x     == last'.obj
            old   == Stored(x)
            new   == counters'[x].coreMap_.entries
            total == SumOfCounts(old)
            c     == counters'[x].cachedTotal_
        IN  /\ Len(new) = Len(old)
            /\ \A i \in 1..Len(old) : new[i][1] = old[i][1]
            /\ c.synched_
            /\ IF total = Zero
               THEN /\ \A i \in 1..Len(old) : new[i][2] = Zero
                    /\ c.value_ = Zero
               ELSE /\ \A i \in 1..Len(old) : new[i][2] = Div(old[i][2], total)
                    /\ c.value_ = One]_vars

\* a counter of two values has just been normalized to one half each
C18_Witness ==
    /\ last.op = "normalize"
    /\ Len(Stored(last.obj)) = 2
    /\ \A i \in 1..2 : Stored(last.obj)[i][2] = Frac(1, 2)
    /\ Cached(last.obj).synched_ /\ Cached(last.obj).value_ = One

\* a counter whose counts cancel out has just been normalized to zeros
C18_ZeroTotal ==
    /\ last.op = "normalize"
    /\ Stored(last.obj) # <<>>
    /\ \A i \in 1..Len(Stored(last.obj)) : Stored(last.obj)[i][2] = Zero
    /\ Cached(last.obj).synched_ /\ Cached(last.obj).value_ = Zero

\* the position of the first entry whose count no other entry exceeds
FirstGreatest(entries) ==
    CHOOSE i \in 1..Len(entries) :
        /\ \A j \in 1..Len(entries) : ~Greater(entries[j][2], entries[i][2])
        /\ \A j \in 1..(i - 1) : Less(entries[j][2], entries[i][2])

\* C19: maxValue() returns the value of the greatest count, the first one in
\* traversal order among equals, for every non-empty counter whatever the
\* sign of its counts, and the default value only for an empty counter.
C19_MaxValueIsGreatest ==
    last.op = "maxValue" =>
        last.ret = IF Stored(last.obj) = <<>>
                   THEN DefaultV
                   ELSE Stored(last.obj)[FirstGreatest(Stored(last.obj))][1]

\* maxValue() has just answered for a counter that stores a positive count
C19_PositiveCounts ==
    last.op = "maxValue" /\ (\E i \in 1..Len(Stored(last.obj)) :
                                 ExceedsMin(Stored(last.obj)[i][2]))
        => last.ret = Stored(last.obj)[FirstGreatest(Stored(last.obj))][1]

\* C20: for two distinct counters a and b, a.equals(b, precision) is true
\* exactly when they store the same values and, for every value, the two
\* counts differ in absolute value by strictly less than precision; a value
\* stored on one side only makes the answer false whatever the precision.
C20_EqualsWithinPrecision ==
    last.op = "equals" /\ last.obj # last.a =>
        last.ret =
            (/\ StoredValues(last.obj) = StoredValues(last.a)
             /\ \A val \in StoredValues(last.obj) :
                    Less(Fabs(Sub(StoredCount(last.obj, val),
                                  StoredCount(last.a, val))), last.b))

\* two counters with the same values, one count apart by exactly the
\* precision, have just been found different
C20_Witness ==
    /\ last.op = "equals" /\ last.obj # last.a
    /\ StoredValues(last.obj) = StoredValues(last.a)
    /\ Stored(last.obj) # <<>>
    /\ last.b # Zero
    /\ \E val \in StoredValues(last.obj) :
           Fabs(Sub(StoredCount(last.obj, val), StoredCount(last.a, val)))
               = last.b
    /\ \A val \in StoredValues(last.obj) :
           ~Greater(Fabs(Sub(StoredCount(last.obj, val),
                             StoredCount(last.a, val))), last.b)
    /\ last.ret = FALSE

\* two counters that store different values within the precision of each
\* other's counts have just been found different
C20_MissingKey ==
    /\ last.op = "equals" /\ last.obj # last.a
    /\ Len(Stored(last.obj)) = Len(Stored(last.a))
    /\ StoredValues(last.obj) # StoredValues(last.a)
    /\ last.ret = FALSE

-----------------------------------------------------------------------------
(* Properties of Counter values *)

\* the value-count pairs a counter stores
StoredPairs(c) == {c.coreMap_.entries[i] : i \in 1..Len(c.coreMap_.entries)}

\* the calls that change only the cache of a counter
CacheOnlyCalls == {"setCachePolicy", "resetCache", "totalCount"}

\* C21: == answers true exactly for counters with the same value-count
\* contents, and != the opposite, whatever the policies, flags and cached
\* values of the two caches; and a call that changes only the cache of a
\* counter (setCachePolicy, resetCache, totalCount) changes the result of ==
\* for no pair of counters.
C21_EqualityIgnoresCache ==
    [][/\ last'.op = "==" =>
            last'.ret = (StoredPairs(counters'[last'.obj])
                            = StoredPairs(counters'[last'.a]))
       /\ last'.op = "!=" =>
            last'.ret = (StoredPairs(counters'[last'.obj])
                            # StoredPairs(counters'[last'.a]))
       /\ last'.op \in CacheOnlyCalls =>
            \A x \in CObjs, y \in CObjs :
                CounterEq(counters'[x], counters'[y], x = y)
                    = CounterEq(counters[x], counters[y], x = y)]_vars

\* two distinct non-empty counters whose caches differ in policy, flag and
\* value have just compared equal
C21_Witness ==
    /\ last.op = "==" /\ last.obj # last.a /\ last.ret = TRUE
    /\ Stored(last.obj) # <<>>
    /\ Cached(last.obj).cachePolicy_ # Cached(last.a).cachePolicy_
    /\ Cached(last.obj).synched_ # Cached(last.a).synched_
    /\ Cached(last.obj).value_ # Cached(last.a).value_

\* C29: a copy of a Counter (construction or assignment from another counter)
\* has the source's value-count contents and the source's cache: policy,
\* flag and cached value; the source is unchanged. Assigning a counter to
\* itself changes nothing.
C29_CopyIncludesCache ==
    [][last'.op = "copy" =>
        /\ StoredPairs(counters'[last'.obj]) = StoredPairs(counters[last'.a])
        /\ counters'[last'.obj].cachedTotal_ = counters[last'.a].cachedTotal_
        /\ counters'[last'.a] = counters[last'.a]]_vars

\* o has just been made a copy of a non-empty c whose cache is persistent and
\* synchronized at a value that is not 0
C29_Witness ==
    /\ last.op = "copy" /\ last.obj = "o" /\ last.a = "c"
    /\ Stored("o") # <<>>
    /\ Cached("o").cachePolicy_ = PERSISTENT
    /\ Cached("o").synched_
    /\ Cached("o").value_ # Zero
    /\ counters["o"] = counters["c"]

-----------------------------------------------------------------------------
(* Properties of the Counter modifiers *)

\* C30: after incrementCount(v, a) getCount(v) is the previous count of v
\* (0 when v was not stored) plus a; after setCount(v, a) it is a; either way
\* v is stored afterwards, a resulting count of 0 included, and no other
\* value changes its count or appears or disappears.
C30_UpsertWithFrame ==
    [][last'.op \in {"incrementCount", "setCount"} =>
        LET x   == last'.obj
            v   == last'.a
            old == counters[x]
            new == counters'[x]
        IN  /\ GetCount(new, v).ret =
                   IF last'.op = "setCount" THEN last'.b
                   ELSE Add(GetCount(old, v).ret, last'.b)
            /\ Contains(new, v)
            /\ \A w \in Vals \ {v} :
                   /\ Contains(new, w) = Contains(old, w)
                   /\ GetCount(new, w).ret = GetCount(old, w).ret
            /\ MapSize(new.coreMap_) =
                   MapSize(old.coreMap_) + (IF Contains(old, v) THEN 0 ELSE 1)
            /\ \A y \in CObjs \ {x} : counters'[y] = counters[y]]_vars

\* incrementCount has just brought the count of a value to 0 in a counter
\* that stores another value too, and the value is still stored
C30_Witness ==
    /\ last.op = "incrementCount"
    /\ Len(Stored(last.obj)) = 2
    /\ last.a \in StoredValues(last.obj)
    /\ StoredCount(last.obj, last.a) = Zero
    /\ \E w \in StoredValues(last.obj) : StoredCount(last.obj, w) = One

-----------------------------------------------------------------------------
(* Properties of Counter ranges *)

\* how often val occurs in a range
Occurrences(range, val) == Cardinality({i \in 1..Len(range) : range[i] = val})

\* C28: a Counter built from a range with the uniform amount c has as many
\* values as the range has distinct ones, a count of c times its number of
\* occurrences for every value, and a total of c times the length of the
\* range; incrementAll on an existing counter adds c per occurrence to the
\* counts it had, and c times the length of the range to its total.
C28_RangeCounts ==
    [][last'.op \in {"Counter(first, last)", "incrementAll"} =>
        LET x     == last'.obj
            range == last'.a
            c     == last'.b
            base  == IF last'.op = "incrementAll" THEN counters[x]
                                                  ELSE CounterDefault
            new   == counters'[x]
            had   == {base.coreMap_.entries[i][1] :
                          i \in 1..Len(base.coreMap_.entries)}
        IN  /\ CounterSize(new) =
                   Cardinality(had \cup {range[i] : i \in 1..Len(range)})
            /\ \A v \in Vals :
                   GetCount(new, v).ret =
                       Add(GetCount(base, v).ret,
                           Mul(c, FromInt(Occurrences(range, v))))
            /\ TotalCount(new) =
                   Add(TotalCount(base), Mul(c, FromInt(Len(range))))]_vars

\* a counter has just been built from a range of three elements in which one
\* value occurs twice
C28_Witness ==
    /\ last.op = "Counter(first, last)"
    /\ Len(last.a) = 3
    /\ last.b = One
    /\ Len(Stored(last.obj)) = 2
    /\ \E v \in Vals : GetCount(counters[last.obj], v).ret = FromInt(2)
    /\ TotalCount(counters[last.obj]) = FromInt(3)

\* incrementAll has just added a range with a repeated value to a counter
\* that already stored that value
C28_IncrementAllOnExisting ==
    /\ last.op = "incrementAll"
    /\ \E v \in Vals : /\ Occurrences(last.a, v) = 2
                       /\ GetCount(counters[last.obj], v).ret = FromInt(3)
    /\ last.b = One

-----------------------------------------------------------------------------
(* Properties of CounterMap lookups and removal *)

\* the keys a CounterMap stores
StoredKeys(m) == {m.coreMap_.entries[i][1] : i \in 1..Len(m.coreMap_.entries)}

\* C22: remove(key, value) never removes a key: after it the key set is as
\* before, and for a key that was there contains(key) is true,
\* contains(key, value) is false, empty() is false and size(key) has gone
\* down by one exactly when the value was stored (to 0 when it was the only
\* one, as after setCount(k, v, c) on an empty map); contains(key) turns from
\* true to false through remove(key) alone.
C22_RemovalAsymmetry ==
    [][/\ last'.op = "remove(key,val)" =>
            LET x   == last'.obj
                key == last'.a[1]
                val == last'.a[2]
            IN  /\ StoredKeys(cmap'[x]) = StoredKeys(cmap[x])
                /\ CounterMapSize(cmap'[x]) = CounterMapSize(cmap[x])
                /\ CounterMapContainsKey(cmap[x], key) =>
                      /\ CounterMapContainsKey(cmap'[x], key)
                      /\ ~CounterMapContains(cmap'[x], key, val)
                      /\ ~CounterMapEmpty(cmap'[x])
                      /\ CounterMapSizeKey(cmap'[x], key) =
                             CounterMapSizeKey(cmap[x], key)
                             - (IF CounterMapContains(cmap[x], key, val)
                                THEN 1 ELSE 0)
       /\ \A x \in MObjs, key \in Keys :
            CounterMapContainsKey(cmap[x], key)
                /\ ~CounterMapContainsKey(cmap'[x], key)
            => last'.op = "remove(key)" /\ last'.obj = x /\ last'.a = key]_vars

\* a map that was empty has taken setCount(k, v, c) and then remove(k, v):
\* it holds k alone, with an empty nested counter
C22_Witness ==
    /\ last.op = "remove(key,val)" /\ nops = 2
    /\ CounterMapSize(cmap[last.obj]) = 1
    /\ ~CounterMapEmpty(cmap[last.obj])
    /\ CounterMapContainsKey(cmap[last.obj], 2)
    /\ last.a[1] = 2
    /\ ~CounterMapContains(cmap[last.obj], 2, last.a[2])
    /\ CounterMapSizeKey(cmap[last.obj], 2) = 0

\* the lookups of a CounterMap that take a key
KeyLookups == {"contains(key)", "contains(key,val)", "size(key)", "getCount",
               "totalCount(key)", "getCounter"}

\* C25: for a key that is not in the map, contains(key) and
\* contains(key, value) answer false, size(key), getCount(key, value) and
\* totalCount(key) answer 0 and getCounter(key) answers null; every one of
\* them returns, and afterwards the map is exactly as before: the key is
\* still absent and size() is unchanged.
C25_LookupsNeverCreateKeys ==
    [][last'.op \in KeyLookups /\ last'.a \notin StoredKeys(cmap[last'.obj]) =>
        /\ cmap' = cmap
        /\ last'.a \notin StoredKeys(cmap'[last'.obj])
        /\ CounterMapSize(cmap'[last'.obj]) = CounterMapSize(cmap[last'.obj])
        /\ last'.op \in {"contains(key)", "contains(key,val)"} =>
               last'.ret = FALSE
        /\ last'.op = "size(key)" => last'.ret = 0
        /\ last'.op \in {"getCount", "totalCount(key)"} => last'.ret = Zero
        /\ last'.op = "getCounter" => last'.ret = NONE]_vars

\* getCount has just answered 0 for a key missing from a map that holds
\* another key
C25_Witness ==
    /\ last.op = "getCount"
    /\ last.a \notin StoredKeys(cmap[last.obj])
    /\ StoredKeys(cmap[last.obj]) # {}
    /\ last.ret = Zero

-----------------------------------------------------------------------------
(* Properties of the grand-total cache of a CounterMap *)

\* the grand-total cache of a CounterMap
GrandTotal(m) == m.cachedTotal_

\* C23: right after incrementCount, setCount or conditionalNormalize the
\* grand-total cache is unsynchronized, whatever it was before the call and
\* whether or not the call changed a count.
C23_ModifiersDesynchronize ==
    [][last'.op \in {"incrementCount", "setCount", "conditionalNormalize"} =>
        ~IsSynched(GrandTotal(cmap'[last'.obj]))]_vars

\* conditionalNormalize has just run, after an earlier call, on a map whose
\* one nested counter it left normalized, and the grand-total cache is
\* unsynchronized
C23_Witness ==
    /\ last.op = "conditionalNormalize" /\ nops >= 2
    /\ ~IsSynched(GrandTotal(cmap[last.obj]))
    /\ CounterMapSize(cmap[last.obj]) = 1
    /\ LET c == cmap[last.obj].coreMap_.entries[1][2]
       IN  /\ IsSynched(c.cachedTotal_)
           /\ c.cachedTotal_.value_ = One
           /\ CounterSize(c) = 2

\* C24: remove(key) on a key that is stored erases the key with its whole
\* nested counter, leaves the other keys as they were and leaves the
\* grand-total cache unsynchronized; on a key that is not stored it changes
\* neither the key set, nor a nested counter, nor the flag or the value of
\* the grand-total cache.
C24_RemoveKey ==
    [][last'.op = "remove(key)" =>
        LET x   == last'.obj
            key == last'.a
        IN  IF key \in StoredKeys(cmap[x])
            THEN /\ StoredKeys(cmap'[x]) = StoredKeys(cmap[x]) \ {key}
                 /\ GetCounter(cmap'[x], key) = NONE
                 /\ \A k \in StoredKeys(cmap'[x]) :
                        GetCounter(cmap'[x], k) = GetCounter(cmap[x], k)
                 /\ ~IsSynched(GrandTotal(cmap'[x]))
            ELSE cmap' = cmap]_vars

\* remove(key) has just found nothing to erase in a map that holds another
\* key and whose grand-total cache is synchronized
C24_Witness ==
    /\ last.op = "remove(key)"
    /\ StoredKeys(cmap[last.obj]) # {}
    /\ last.a \notin StoredKeys(cmap[last.obj])
    /\ IsSynched(GrandTotal(cmap[last.obj]))
    /\ GrandTotal(cmap[last.obj]).value_ # Zero

-----------------------------------------------------------------------------
(* Properties of CounterMap arithmetic *)

\* the <<key, value, count>> triples a CounterMap stores
NestedTriples(m) ==
    UNION {{<<m.coreMap_.entries[i][1], p[1], p[2]>> :
                p \in StoredPairs(m.coreMap_.entries[i][2])} :
           i \in 1..Len(m.coreMap_.entries)}

\* new holds the keys of old with every count doubled
Doubled(new, old) ==
    /\ StoredKeys(new) = StoredKeys(old)
    /\ NestedTriples(new) =
           {<<t[1], t[2], Mul(FromInt(2), t[3])>> : t \in NestedTriples(old)}

C26_KeyCreated ==
    /\ last.op = "+=" /\ last.obj # last.a
    /\ CounterMapSize(cmap[last.obj]) = 2
    /\ CounterMapSize(cmap[last.a]) = 1
    /\ NestedTriples(cmap[last.a]) # {}
    /\ NestedTriples(cmap[last.a]) \subseteq NestedTriples(cmap[last.obj])

-----------------------------------------------------------------------------
(* Properties of CounterMap factory ownership *)

\* C27: the factory a CounterMap holds is never the caller's factory object
\* and never the factory object another CounterMap holds: construction,
\* copy construction and copy assignment give the object a clone of its own,
\* and move and swap only pass pointers on; the factory an object holds is
\* on the heap.
C27_FactoryNeverShared ==
    \A x \in cmap.alive :
        cmap.fac[x] # Null =>
            /\ cmap.fac[x] # CallerFactory
            /\ cmap.heap[cmap.fac[x]] # NoFactory
            /\ \A y \in cmap.alive \ {x} : cmap.fac[y] # cmap.fac[x]

\* rhs has just been copy-assigned to m and each of the two holds a factory
\* object of its own
C27_Witness ==
    /\ last.op = "operator=(CounterMap const&)" /\ last.b = "ok"
    /\ last.obj = "m" /\ last.a = "rhs"
    /\ cmap.alive = MObjs
    /\ cmap.fac["m"] # Null /\ cmap.fac["rhs"] # Null
    /\ cmap.fac["m"] # cmap.fac["rhs"]
    /\ cmap.heap[cmap.fac["m"]] = cmap.heap[cmap.fac["rhs"]]

-----------------------------------------------------------------------------
(* Properties of Counter::remove *)

\* C31: remove(v) of a value the counter does not store changes nothing:
\* the entries, the flag, the stored value and the policy of the cache are
\* as before, under RELAXED and under PERSISTENT; remove(v) of a stored
\* value deletes the entry of v and no other, and keeps the policy.
C31_RemoveFrame ==
    [][last'.op = "remove" =>
        LET x   == last'.obj
            v   == last'.a
            old == counters[x]
            new == counters'[x]
        IN  /\ IF ~Contains(old, v)
               THEN new = old
               ELSE /\ ~Contains(new, v)
                    /\ StoredPairs(new) =
                           StoredPairs(old) \ {<<v, GetCount(old, v).ret>>}
                    /\ MapSize(new.coreMap_) = MapSize(old.coreMap_) - 1
                    /\ new.cachedTotal_.cachePolicy_ =
                           old.cachedTotal_.cachePolicy_
            /\ \A y \in CObjs \ {x} : counters'[y] = counters[y]]_vars

\* remove of a value that is not stored has just returned on a counter under
\* PERSISTENT whose cache is synchronized at a total other than 0
C31_Witness ==
    /\ last.op = "remove"
    /\ last.a \notin StoredValues(last.obj)
    /\ Len(Stored(last.obj)) = 1
    /\ Cached(last.obj).cachePolicy_ = PERSISTENT
    /\ Cached(last.obj).synched_
    /\ Cached(last.obj).value_ = One

-----------------------------------------------------------------------------
(* Properties of Counter arithmetic by counter *)

\* C32: c += o and c -= o leave c storing exactly the values c or o stored;
\* a value of o holds its former count in c (0 when c did not store it)
\* plus, respectively minus, its count in o, and a value o does not store
\* keeps its count; (c + o) - o stores the values of c with their counts and
\* the values only o stored with count 0, so it compares equal to c exactly
\* when c stored every value of o.
C32_CounterArithmetic ==
    [][/\ last'.op \in {"+=", "-="} =>
            LET x   == last'.obj
                old == counters[x]
                o   == counters[last'.a]
                new == counters'[x]
            IN  \A v \in Vals :
                    /\ Contains(new, v) = (Contains(old, v) \/ Contains(o, v))
                    /\ GetCount(new, v).ret =
                           IF ~Contains(o, v) THEN GetCount(old, v).ret
                           ELSE IF last'.op = "+="
                                THEN Add(GetCount(old, v).ret,
                                         GetCount(o, v).ret)
                                ELSE Sub(GetCount(old, v).ret,
                                         GetCount(o, v).ret)
       /\ (last'.op = "(+)-" /\ last'.b = last'.a) =>
            LET c    == counters[last'.obj]
                o    == counters[last'.a]
                diff == last'.ret
            IN  /\ \A v \in Vals :
                       /\ Contains(diff, v) = (Contains(c, v) \/ Contains(o, v))
                       /\ GetCount(diff, v).ret = GetCount(c, v).ret
                /\ CounterEq(diff, c, FALSE) =
                       (\A v \in Vals : Contains(o, v) => Contains(c, v))
                /\ counters' = counters]_vars

\* (c + o) - o has just been computed for an o that stores a value with a
\* count other than 0 which c does not store: the difference stores that
\* value with count 0 and differs from c
C32_Witness ==
    /\ last.op = "(+)-"
    /\ last.b = last.a
    /\ last.obj # last.a
    /\ \E v \in Vals :
           /\ Contains(counters[last.a], v)
           /\ GetCount(counters[last.a], v).ret # Zero
           /\ ~Contains(counters[last.obj], v)
           /\ Contains(last.ret, v)
           /\ GetCount(last.ret, v).ret = Zero
    /\ counters[last.obj].coreMap_.entries # <<>>
    /\ ~CounterEq(last.ret, counters[last.obj], FALSE)

\* c -= o has just created in c a value only o stored, with the opposite of
\* its count in o
C32_KeyCreated ==
    /\ last.op = "-="
    /\ last.obj = "c" /\ last.a = "o"
    /\ Len(Stored("c")) = 2
    /\ \E v \in StoredValues("o") :
           /\ StoredCount("o", v) = FromInt(-1)
           /\ StoredCount("c", v) = One
    /\ nops = 2

-----------------------------------------------------------------------------
(* Properties of Counter arithmetic by scalar *)

\* what a compound operator with a count makes of a stored count or of a
\* persistent cached total
Scaled(op, x, n) ==
    CASE op = "*=n" -> Mul(x, n)
      [] op = "/=n" -> Div(x, n)
      [] OTHER      -> x

\* C33: c += n adds n to every stored count and c *= n multiplies every
\* stored count by n (c -= n and c /= n likewise subtract and divide); the
\* values stored and their order stay; a PERSISTENT cache synchronized at S
\* is afterwards synchronized at S + n * size() for +=, at S * n for *=.
C33_ScalarOperators ==
    [][last'.op \in {"+=n", "-=n", "*=n", "/=n"} =>
        LET x    == last'.obj
            n    == last'.a
            old  == counters[x]
            new  == counters'[x]
            size == FromInt(MapSize(old.coreMap_))
            S    == old.cachedTotal_.value_
        IN  /\ Len(new.coreMap_.entries) = Len(old.coreMap_.entries)
            /\ \A i \in DOMAIN old.coreMap_.entries :
                   /\ new.coreMap_.entries[i][1] = old.coreMap_.entries[i][1]
                   /\ new.coreMap_.entries[i][2] =
                          CASE last'.op = "+=n" ->
                                   Add(old.coreMap_.entries[i][2], n)
                            [] last'.op = "-=n" ->
                                   Sub(old.coreMap_.entries[i][2], n)
                            [] OTHER ->
                                   Scaled(last'.op,
                                          old.coreMap_.entries[i][2], n)
            /\ (/\ old.cachedTotal_.cachePolicy_ = PERSISTENT
                /\ old.cachedTotal_.synched_) =>
                   /\ new.cachedTotal_.synched_
                   /\ new.cachedTotal_.cachePolicy_ = PERSISTENT
                   /\ new.cachedTotal_.value_ =
                          CASE last'.op = "+=n" -> Add(S, Mul(n, size))
                            [] last'.op = "-=n" -> Sub(S, Mul(n, size))
                            [] OTHER -> Scaled(last'.op, S, n)]_vars

\* c += 2 has just returned on a counter of two values under PERSISTENT
\* whose cache was synchronized at -2: the counts are 1 and 1 and the cache
\* is synchronized at 2
C33_Witness ==
    /\ last.op = "+=n"
    /\ last.a = FromInt(2)
    /\ Len(Stored("c")) = 2
    /\ \A v \in StoredValues("c") : StoredCount("c", v) = One
    /\ Cached("c").cachePolicy_ = PERSISTENT
    /\ Cached("c").synched_
    /\ Cached("c").value_ = FromInt(2)

\* c *= 2 has just returned on a counter of two values under PERSISTENT
\* whose cache was synchronized at 1
C33_Times ==
    /\ last.op = "*=n"
    /\ last.a = FromInt(2)
    /\ Len(Stored("c")) = 2
    /\ \A v \in StoredValues("c") : StoredCount("c", v) = One
    /\ Cached("c").cachePolicy_ = PERSISTENT
    /\ Cached("c").synched_
    /\ Cached("c").value_ = FromInt(2)

-----------------------------------------------------------------------------
(* Properties of the nested counters a CounterMap creates *)

\* the count a nested counter holds for a value before any update: nothing
\* for the default and the map-type factory, the count of the stored
\* template for the copying one
SeedCount(factory, val) ==
    IF factory = CopyCounterFactory /\ val = 1 THEN One ELSE Zero

\* the count of val under key before a call: the one stored when the key is
\* there, the seed of the factory when it is not
CountBefore(m, key, val) ==
    IF CounterMapContainsKey(m, key)
    THEN CounterMapGetCount(m, key, val).ret
    ELSE SeedCount(m.counterFactory_, val)

\* the container of the nested counter under key before a call: the one it
\* has when the key is there, the one the factory builds when it is not
TypeBefore(m, key) ==
    IF CounterMapContainsKey(m, key)
    THEN GetCounter(m, key).coreMap_.type
    ELSE IF m.counterFactory_ = MapTypeCounterFactory
         THEN ORDERED ELSE UNORDERED

\* C34: incrementCount, setCount and += update the nested counter of the
\* key they touch in place when the key is there (its container and its
\* other counts stay); when it is not, the nested counter starts as the
\* counter the factory creates, empty for the default and the map-type
\* factory and a copy of the template for the copying factory, so that
\* incrementCount(k, v, a) leaves template(v) + a; no other key is touched.
C34_NestedCountersFromFactory ==
    [][last'.op \in {"incrementCount", "setCount", "+="} =>
        LET x   == last'.obj
            old == cmap[x]
            new == cmap'[x]
        IN  IF last'.op \in {"incrementCount", "setCount"}
            THEN LET key == last'.a[1]
                     val == last'.a[2]
                 IN  /\ CounterMapContainsKey(new, key)
                     /\ GetCounter(new, key).coreMap_.type =
                            TypeBefore(old, key)
                     /\ \A w \in Vals :
                            CounterMapGetCount(new, key, w).ret =
                                IF w # val THEN CountBefore(old, key, w)
                                ELSE IF last'.op = "setCount" THEN last'.b
                                ELSE Add(CountBefore(old, key, w), last'.b)
                     /\ \A k \in Keys \ {key} :
                            GetCounter(new, k) = GetCounter(old, k)
            ELSE LET rhs == cmap[last'.a]
                 IN  \A k \in Keys :
                        IF ~CounterMapContainsKey(rhs, k)
                        THEN GetCounter(new, k) = GetCounter(old, k)
                        ELSE /\ CounterMapContainsKey(new, k)
                             /\ GetCounter(new, k).coreMap_.type =
                                    TypeBefore(old, k)
                             /\ \A w \in Vals :
                                  CounterMapGetCount(new, k, w).ret =
                                      Add(CountBefore(old, k, w),
                                          CounterMapGetCount(rhs, k, w).ret)
       ]_vars

\* the first call on a map with the copying factory was incrementCount(2, 1,
\* 1) on a key the map did not hold: the new nested counter holds 2 for
\* value 1, the template's count plus 1
C34_Witness ==
    /\ last.op = "incrementCount"
    /\ nops = 1
    /\ last.a = <<2, 1>>
    /\ last.b = One
    /\ cmap["m"].counterFactory_ = CopyCounterFactory
    /\ CounterMapGetCount(cmap["m"], 2, 1).ret = FromInt(2)

\* the first call on an empty map with the copying factory was m += rhs for
\* an rhs holding key 1: the nested counter created holds the template's
\* count plus that of rhs
C34_PlusCreates ==
    /\ last.op = "+="
    /\ nops = 1
    /\ last.a = "rhs"
    /\ cmap["m"].counterFactory_ = CopyCounterFactory
    /\ MapSize(cmap["m"].coreMap_) = 1
    /\ CounterMapGetCount(cmap["m"], 1, 1).ret = FromInt(2)
    /\ CounterMapGetCount(cmap["rhs"], 1, 1).ret = One

\* incrementCount on a key the map held from its construction: the nested
\* counter keeps the container it was built with, not the factory's
C34_UpdatedInPlace ==
    /\ last.op = "incrementCount"
    /\ nops = 1
    /\ last.a[1] = 1
    /\ cmap["m"].counterFactory_ = DefaultCounterFactory
    /\ GetCounter(cmap["m"], 1) # <<>>
    /\ GetCounter(cmap["m"], 1).coreMap_.type = ORDERED

-----------------------------------------------------------------------------
(* Properties of CounterMap::conditionalNormalize *)

\* the keys of a map whose nested counts do not sum to 0
NonzeroKeys(m) ==
    {k \in StoredKeys(m) : SumOfCounts(GetCounter(m, k).coreMap_.entries) # Zero}

\* C35: conditionalNormalize() keeps the top-level keys; afterwards
\* totalCount(key) is 1 for every key whose nested counts summed to
\* something other than 0 and 0 for every key whose nested counts summed to
\* 0, and totalCount() is the number of keys of the first kind, 0 for an
\* empty map.
C35_ConditionalNormalize ==
    [][last'.op = "conditionalNormalize" =>
        LET old == cmap[last'.obj]
            new == cmap'[last'.obj]
        IN  /\ CounterMapSize(new) = CounterMapSize(old)
            /\ StoredKeys(new) = StoredKeys(old)
            /\ \A k \in Keys :
                   CounterMapTotalCountKey(new, k) =
                       IF k \in NonzeroKeys(old) THEN One ELSE Zero
            /\ CounterMapTotalCount(new) =
                   FromInt(Cardinality(NonzeroKeys(old)))]_vars

\* conditionalNormalize() has just returned on a map of two keys, one whose
\* nested counts summed to 0 and one whose nested counts did not: the
\* totals by key are 0 and 1 and the grand total is 1
C35_Witness ==
    /\ last.op = "conditionalNormalize"
    /\ CounterMapSize(cmap["m"]) = 2
    /\ \E k \in Keys :
           /\ CounterMapSizeKey(cmap["m"], k) > 0
           /\ CounterMapTotalCountKey(cmap["m"], k) = Zero
    /\ \E k \in Keys : CounterMapTotalCountKey(cmap["m"], k) = One
    /\ CounterMapTotalCount(cmap["m"]) = One

-----------------------------------------------------------------------------
(* Properties of CounterMap copies *)

\* C36: once c is copy-constructed or copy-assigned from m, no nested
\* counter of c is an object m holds too (none shares a cache or a
\* container with one of m), and no incrementCount, setCount, remove(key),
\* remove(key, value), conditionalNormalize or += on c, a nested counter
\* both hold included, changes the keys of m or the counts and the cache of
\* any nested counter of m.
C36_CopyIsDeep ==
    /\ [](("c" \in cmap.alive) => CellsOf(cmap, "c") \cap CellsOf(cmap, "m") = {})
    /\ [][last'.obj = "c" => LoadMap(cmap', "m") = LoadMap(cmap, "m")]_vars

\* c was copy-constructed from m and then took two updates of the nested
\* counter of a key both hold, which now differs from that of m
C36_Witness ==
    /\ nops = 3
    /\ last.op \in {"incrementCount", "setCount", "remove(key,val)"}
    /\ "c" \in cmap.alive
    /\ LET key == last.a[1]
       IN  /\ CounterMapContainsKey(LoadMap(cmap, "m"), key)
           /\ CounterMapContainsKey(LoadMap(cmap, "c"), key)
           /\ GetCounter(LoadMap(cmap, "c"), key).coreMap_
                  # GetCounter(LoadMap(cmap, "m"), key).coreMap_
    /\ MapKeys(cmap.obj["c"].coreMap_) = MapKeys(cmap.obj["m"].coreMap_)

\* c was default-constructed, assigned m and normalized
C36_AssignedThenNormalized ==
    /\ nops = 3
    /\ last.op = "conditionalNormalize"
    /\ CounterMapTotalCount(LoadMap(cmap, "c")) = One
    /\ MapSize(cmap.obj["m"].coreMap_) = 2

-----------------------------------------------------------------------------
(* Properties of the lifetime of the factory clones *)

\* C37: every factory clone a CounterMap allocates is deleted by the time
\* all CounterMaps are destroyed: with no CounterMap left, the heap holds no
\* factory but the caller's own.
C37_NoFactoryLeak ==
    (cmap.alive = {}) =>
        \A a \in FactoryAddrs \ {CallerFactory} : cmap.heap[a] = NoFactory

-----------------------------------------------------------------------------
(* Properties of moved-from counters *)

\* C38: the source of a Counter move construction still owns a cache, and
\* no totalCount(), incrementCount(), copy assignment or copy construction
\* on a constructed counter has an undefined outcome.
C38_MovedFromIsUsable ==
    /\ last.op = "Counter(Counter&&)" => counters.ptr[last.a] # Null
    /\ last.b = "ok"

\* a call on the source of a move construction has gone through its null
\* cachedTotal_
C38_NullDereferenced ==
    /\ last.b \in Undefined
    /\ last.op \in {"totalCount", "incrementCount"}
    /\ last.obj \in counters.alive
    /\ counters.ptr[last.obj] = Null
    /\ nops = 2

-----------------------------------------------------------------------------
(* Properties of Counter::equals on one object *)

\* C39: c.equals(c, p) answers what c.equals(d, p) answers for a separate
\* copy d of c with the same contents, for every precision p, 0 included.
C39_EqualsIgnoresIdentity ==
    (last.op = "equals" /\ last.obj = last.a) =>
        last.ret = Equals(counters[last.obj], CounterCopy(counters[last.obj]),
                          FALSE, last.b)

\* with a precision above 0 a counter that stores values has just been found
\* equal to itself, as it is to a copy
C39_PositivePrecision ==
    /\ last.op = "equals" /\ last.obj = last.a
    /\ last.b # Zero
    /\ Stored(last.obj) # <<>>
    /\ last.ret = TRUE
    /\ Equals(counters[last.obj], CounterCopy(counters[last.obj]), FALSE, last.b)

=============================================================================
